---- MODULE Spec2Model ----
(***************************************************************************)
(* A model of the crossword-data-format parser (src/index.js, lines 1-548):*)
(* parse(text) threads one mutable object, `parsing`, through the stages   *)
(* of innerParse.  Text is modelled as the sequence of its lines           *)
(* (text.split("\n")); a line is modelled by the pieces the scanner's and  *)
(* the clue grammar's regular expressions look at, each piece a sequence   *)
(* of one-character strings.                                               *)
(***************************************************************************)
EXTENDS Integers, Sequences, FiniteSets, TLC

VARIABLES input, pc, parsing, stages

vars == <<input, pc, parsing, stages>>

(***************************************************************************)
(* Characters, digit strings, parseInt and Number.prototype.toString       *)
(***************************************************************************)

Digits == <<"0", "1", "2", "3", "4", "5", "6", "7", "8", "9">>

Range(s) == {s[i] : i \in DOMAIN s}

IsDigit(c) == c \in Range(Digits)

DigitVal(c) == (CHOOSE i \in DOMAIN Digits : Digits[i] = c) - 1

UpperCaseLetters == {"A", "B", "C", "S", "X", "Z"}

\* /^\d+$/ on a string
IsDigits(s) == Len(s) > 0 /\ \A i \in DOMAIN s : IsDigit(s[i])

\* /^[A-Z]+$/ on a string
IsUpperWord(s) == Len(s) > 0 /\ \A i \in DOMAIN s : s[i] \in UpperCaseLetters

RECURSIVE ParseIntAcc(_, _)
ParseIntAcc(s, acc) ==
  IF s = <<>> THEN acc ELSE ParseIntAcc(Tail(s), acc * 10 + DigitVal(Head(s)))

\* parseInt(s, 10) of a string of decimal digits
ParseInt(s) == ParseIntAcc(s, 0)

RECURSIVE NumberToString(_)
\* n.toString() of a non-negative integer
NumberToString(n) ==
  IF n < 10 THEN <<Digits[n + 1]>>
  ELSE Append(NumberToString(n \div 10), Digits[(n % 10) + 1])

RECURSIVE TrimLeft(_)
\* String.prototype.trimLeft
TrimLeft(s) ==
  IF s # <<>> /\ Head(s) = " " THEN TrimLeft(Tail(s)) ELSE s

\* the character codes of the characters the answer grammar meets
CharCode(c) ==
  CASE c = " " -> 32
    [] c = "!" -> 33
    [] c = "+" -> 43
    [] c = "," -> 44
    [] c = "-" -> 45
    [] c = "/" -> 47
    [] IsDigit(c) -> 48 + DigitVal(c)
    [] c = ";" -> 59
    [] c = "|" -> 124
    [] c = "~" -> 126

(***************************************************************************)
(* Objects: an object is a function from its own property names.           *)
(***************************************************************************)

EmptyObject == [k \in {} |-> 0]

HasOwnProperty(obj, key) == key \in DOMAIN obj

\* Object.assign(target, source)
ObjectAssign(target, source) ==
  [k \in (DOMAIN target) \cup (DOMAIN source) |->
     IF k \in DOMAIN source THEN source[k] ELSE target[k]]

SetProperty(obj, key, value) ==
  [k \in (DOMAIN obj) \cup {key} |-> IF k = key THEN value ELSE obj[k]]

(***************************************************************************)
(* The header scanner                                                      *)
(***************************************************************************)

permittedKeys ==
  [version |-> "string", name |-> "string", author |-> "string",
   editor |-> "string", copyright |-> "string", publisher |-> "string",
   pubdate |-> "string", size |-> "string", across |-> "list", down |-> "list"]

\* Object.keys(permittedKeys): the keys in the order they are written
permittedKeysOrder ==
  <<"version", "name", "author", "editor", "copyright", "publisher",
    "pubdate", "size", "across", "down">>

\* a string value and a list value of the found items
Str(chars) == [str |-> chars]
List(items) == [list |-> items]

\* The four shapes of a line, as the scanner's tests tell them apart:
\*   blank : line === ''
\*   key   : line matches /^([a-z]+):(.*)$/   (key, and the text after the colon)
\*   item  : no key line, and line matches /^(\- .+)$/
\*   other : none of these
BlankLine == [kind |-> "blank"]
KeyLine(key, value) == [kind |-> "key", key |-> key, value |-> value]
ItemLine(item) == [kind |-> "item", item |-> item]
OtherLine == [kind |-> "other"]

IsDuplicateKeyOfString(foundItems, key) ==
  permittedKeys[key] = "string" /\ HasOwnProperty(foundItems, key)

\* the test that guards the 'duplicate key' error: foundItems.hasOwnProperty(key)
IsDuplicateKey(foundItems, key) == HasOwnProperty(foundItems, key)

ScanLineKeepingListOpen(scan, line, i) ==
  IF line.kind = "blank" THEN scan
  ELSE IF line.kind = "key" THEN
    LET key == line.key
        value == TrimLeft(line.value)
        closed == [scan EXCEPT !.inList = FALSE]
    IN IF HasOwnProperty(permittedKeys, key) THEN
         IF IsDuplicateKey(closed.foundItems, key) THEN
           [closed EXCEPT !.errors =
              Append(@, [msg |-> "duplicate key", key |-> key, line |-> i])]
         ELSE IF permittedKeys[key] = "list" THEN
           IF value # <<>> THEN
             [closed EXCEPT !.errors =
                Append(@, [msg |-> "unexpected text found after list key",
                           key |-> key, line |-> i])]
           ELSE
             [closed EXCEPT !.inList = TRUE, !.currentKey = key,
                            !.foundItems = SetProperty(@, key, List(<<>>))]
         ELSE
           [closed EXCEPT !.foundItems = SetProperty(@, key, Str(value))]
       ELSE
         [scan EXCEPT !.errors =
            Append(@, [msg |-> "unrecognised key", key |-> key, line |-> i])]
  ELSE IF scan.inList THEN
    IF line.kind = "item" THEN
      [scan EXCEPT !.foundItems[scan.currentKey] =
         List(Append(@.list, line.item))]
    ELSE
      [scan EXCEPT !.errors =
         Append(@, [msg |-> "could not parse as list item", line |-> i])]
  ELSE
    [scan EXCEPT !.errors =
       Append(@, [msg |-> "no key specified and cannot be a list item",
                  line |-> i])]

\* one turn of the forEach over the lines; scan is
\* [foundItems, inList, currentKey, errors], line i (counted from 0)
ScanLine(scan, line, i) ==
  IF line.kind = "blank" THEN scan
  ELSE IF line.kind = "key" THEN
    LET key == line.key
        value == TrimLeft(line.value)
        closed == [scan EXCEPT !.inList = FALSE]
    IN IF HasOwnProperty(permittedKeys, key) THEN
         IF IsDuplicateKey(closed.foundItems, key) THEN
           [closed EXCEPT !.errors =
              Append(@, [msg |-> "duplicate key", key |-> key, line |-> i])]
         ELSE IF permittedKeys[key] = "list" THEN
           IF value # <<>> THEN
             [closed EXCEPT !.errors =
                Append(@, [msg |-> "unexpected text found after list key",
                           key |-> key, line |-> i])]
           ELSE
             [closed EXCEPT !.inList = TRUE, !.currentKey = key,
                            !.foundItems = SetProperty(@, key, List(<<>>))]
         ELSE
           [closed EXCEPT !.foundItems = SetProperty(@, key, Str(value))]
       ELSE
         [closed EXCEPT !.errors =
            Append(@, [msg |-> "unrecognised key", key |-> key, line |-> i])]
  ELSE IF scan.inList THEN
    IF line.kind = "item" THEN
      [scan EXCEPT !.foundItems[scan.currentKey] =
         List(Append(@.list, line.item))]
    ELSE
      [scan EXCEPT !.errors =
         Append(@, [msg |-> "could not parse as list item", line |-> i])]
  ELSE
    [scan EXCEPT !.errors =
       Append(@, [msg |-> "no key specified and cannot be a list item",
                  line |-> i])]

RECURSIVE ScanLines(_, _, _)
ScanLines(scan, lines, i) ==
  IF i > Len(lines) THEN scan
  ELSE ScanLines(ScanLine(scan, lines[i], i - 1), lines, i + 1)

\* the elements of a sequence that satisfy a test, in order
RECURSIVE SelectKeys(_, _)
SelectKeys(keys, found) ==
  IF keys = <<>> THEN <<>>
  ELSE IF HasOwnProperty(found, Head(keys)) THEN SelectKeys(Tail(keys), found)
  ELSE <<Head(keys)>> \o SelectKeys(Tail(keys), found)

missingKeysOfStrings(foundItems) ==
  SelectKeys(SubSeq(permittedKeysOrder, 1, 8), foundItems)

missingKeysAfterTheFirst(foundItems) ==
  SelectKeys(Tail(permittedKeysOrder), foundItems)

\* Object.keys(permittedKeys).filter( key => !foundItems.hasOwnProperty(key) )
missingKeys(foundItems) == SelectKeys(permittedKeysOrder, foundItems)

\* scanYamlText(text, errors): [foundItems, errors]
scanYamlText(lines, errors) ==
  LET scan == ScanLines([foundItems |-> EmptyObject, inList |-> FALSE,
                         currentKey |-> "", errors |-> errors], lines, 1)
      missing == missingKeys(scan.foundItems)
  IN [foundItems |-> scan.foundItems,
      errors |-> IF Len(missing) > 0
                   THEN Append(scan.errors,
                               [msg |-> "missing keys", keys |-> missing])
                   ELSE scan.errors]

(***************************************************************************)
(* The clue-line grammar.  A list item is modelled by the pieces of the    *)
(* text '- (x,y) ids. body (answer)':                                      *)
(*   x, y   : the characters between '(' ',' ')'                           *)
(*   ids    : the comma-separated id items, each [id, sp, dir]: the digits,*)
(*            the number of blanks after them and the direction word       *)
(*            ("" when there is none)                                      *)
(*   body   : [see, id, dir]: whether the body reads 'See <id> <dir>'      *)
(*   answer : the tokens between the last '(' ')', each [sep, tok]: the    *)
(*            character before the token ("" for the first) and the token  *)
(***************************************************************************)

directions == <<"across", "down">>

\* the direction words as property names
DirectionChars ==
  [across |-> <<"a", "c", "r", "o", "s", "s">>, down |-> <<"d", "o", "w", "n">>]

\* [,-|] : answerSeparators = ',-|'.split() is the one-element array [',-|'],
\* so the character class built from it is the range from ',' to '|'
InSeparatorClass(c) ==
  CharCode(",") <= CharCode(c) /\ CharCode(c) <= CharCode("|")

\* sourceRegexComponent: (?:\d+|[A-Z]+)
MatchesSource(tok) == IsDigits(tok) \/ IsUpperWord(tok)

\* answerRegexComponent: \((source(?:[,-|]source)*)\)
MatchesAnswer(answer) ==
  /\ Len(answer) >= 1
  /\ answer[1].sep = ""
  /\ \A i \in DOMAIN answer :
       /\ MatchesSource(answer[i].tok)
       /\ i > 1 => InSeparatorClass(answer[i].sep)

\* idsRegexComponent: (\d+(?:,\d+(?:\s*(?:across|down)))*)\.
MatchesIds(ids) ==
  /\ Len(ids) >= 1
  /\ IsDigits(ids[1].id) /\ ids[1].sp = 0 /\ ids[1].dir = ""
  /\ \A i \in DOMAIN ids :
       i > 1 => IsDigits(ids[i].id) /\ ids[i].dir \in Range(directions)

\* clueText.match( clueRegex )
MatchesClueRegex(item) ==
  /\ IsDigits(item.x) /\ IsDigits(item.y)
  /\ MatchesIds(item.ids)
  /\ MatchesAnswer(item.answer)

(***************************************************************************)
(* The clues object: at[id] is the object of the clue records of id, keyed *)
(* by direction; keys lists the ids in the order they were first inserted. *)
(***************************************************************************)

NoClues == [keys |-> <<>>, at |-> EmptyObject]

\* a property name that Object.keys lists among the integer keys
IsIntegerKey(id) == IsDigits(id) /\ NumberToString(ParseInt(id)) = id

RECURSIVE InsertSorted(_, _)
InsertSorted(n, sorted) ==
  IF sorted = <<>> THEN <<n>>
  ELSE IF n <= Head(sorted) THEN <<n>> \o sorted
  ELSE <<Head(sorted)>> \o InsertSorted(n, Tail(sorted))

RECURSIVE SortInts(_)
\* ints.sort((a,b) => a-b)
SortInts(ints) ==
  IF ints = <<>> THEN <<>> ELSE InsertSorted(Head(ints), SortInts(Tail(ints)))

RECURSIVE SelectIntegerKeys(_, _)
SelectIntegerKeys(keys, want) ==
  IF keys = <<>> THEN <<>>
  ELSE IF IsIntegerKey(Head(keys)) = want
         THEN <<Head(keys)>> \o SelectIntegerKeys(Tail(keys), want)
  ELSE SelectIntegerKeys(Tail(keys), want)

\* Object.keys(clues): the integer keys in ascending order, then the other
\* keys in insertion order
CluesKeys(clues) ==
  LET ints == SortInts([i \in DOMAIN SelectIntegerKeys(clues.keys, TRUE) |->
                          ParseInt(SelectIntegerKeys(clues.keys, TRUE)[i])])
  IN [i \in DOMAIN ints |-> NumberToString(ints[i])]
     \o SelectIntegerKeys(clues.keys, FALSE)

\* Object.keys(clues[id]): across is always inserted before down
DirectionKeys(cluesOfId) ==
  (IF HasOwnProperty(cluesOfId, "across") THEN <<"across">> ELSE <<>>)
  \o (IF HasOwnProperty(cluesOfId, "down") THEN <<"down">> ELSE <<>>)

\* clues.hasOwnProperty(key)
CluesHasOwnProperty(clues, key) == HasOwnProperty(clues.at, key)

\* every (id, direction) of the clues, in the order of the nested forEach loops
RECURSIVE CluePairsOf(_, _)
CluePairsOf(clues, keys) ==
  IF keys = <<>> THEN <<>>
  ELSE [i \in DOMAIN DirectionKeys(clues.at[Head(keys)]) |->
          [id |-> Head(keys), direction |-> DirectionKeys(clues.at[Head(keys)])[i]]]
       \o CluePairsOf(clues, Tail(keys))

CluePairs(clues) == CluePairsOf(clues, CluesKeys(clues))

(***************************************************************************)
(* parseAcrossAndDownLines                                                 *)
(***************************************************************************)

\* the test that guards the 'duplicate' error: clues.hasOwnProperty(direction)
IsDuplicateClue(clues, id, direction) ==
  CluesHasOwnProperty(clues, DirectionChars[direction])

\* the clue record of a matched line
NewClue(item, id, direction, c) ==
  [id |-> id,
   direction |-> direction,
   coords |-> [across |-> ParseInt(item.x), down |-> ParseInt(item.y)],
   raw |-> [idsText |-> item.ids, bodyText |-> item.body,
            answerText |-> item.answer, clueText |-> item,
            clueTextSequenceId |-> c]]

\* one turn of the inner forEach; st is [clues, errors, prevIdInt]
ParseClueLine(st, direction, item, c) ==
  IF ~MatchesClueRegex(item) THEN
    [st EXCEPT !.errors =
       Append(@, [msg |-> "could not parse clue", direction |-> direction,
                  c |-> c])]
  ELSE
    LET id == item.ids[1].id
        idInt == ParseInt(id)
        errors1 == IF st.prevIdInt > idInt
                     THEN Append(st.errors,
                                 [msg |-> "out of id order", id |-> id,
                                  direction |-> direction])
                     ELSE st.errors
        clues1 == IF ~CluesHasOwnProperty(st.clues, id)
                    THEN [keys |-> Append(st.clues.keys, id),
                          at |-> SetProperty(st.clues.at, id, EmptyObject)]
                    ELSE st.clues
    IN IF IsDuplicateClue(clues1, id, direction) THEN
         [clues |-> clues1,
          errors |-> Append(errors1, [msg |-> "duplicate", direction |-> direction,
                                      c |-> c]),
          prevIdInt |-> idInt]
       ELSE
         [clues |-> [clues1 EXCEPT !.at[id] =
                       SetProperty(@, direction, NewClue(item, id, direction, c))],
          errors |-> errors1,
          prevIdInt |-> idInt]

RECURSIVE ParseClueLines(_, _, _, _)
ParseClueLines(st, direction, clueTexts, i) ==
  IF i > Len(clueTexts) THEN st
  ELSE ParseClueLines(ParseClueLine(st, direction, clueTexts[i], i - 1),
                      direction, clueTexts, i + 1)

LargestClueIdLastInserted(clues) ==
  IF Len(clues.keys) > 0 THEN clues.keys[Len(clues.keys)] ELSE <<"0">>

\* largestClueId from Object.keys(clues)
LargestClueId(clues) ==
  LET keys == CluesKeys(clues)
      integerIds == SortInts([i \in DOMAIN keys |-> ParseInt(keys[i])])
  IN IF Len(integerIds) > 0 THEN NumberToString(integerIds[Len(integerIds)])
     ELSE <<"0">>

parseAcrossAndDownLinesKeepingPrevId(acrossList, downList, errors) ==
  LET afterAcross == ParseClueLines([clues |-> NoClues, errors |-> errors,
                                     prevIdInt |-> 0], "across", acrossList, 1)
      afterDown == ParseClueLines(afterAcross, "down", downList, 1)
  IN [clues |-> afterDown.clues,
      largestClueId |-> LargestClueId(afterDown.clues),
      errors |-> afterDown.errors]

\* parseAcrossAndDownLines(acrossList, downList, errors): [clues, largestClueId, errors]
parseAcrossAndDownLines(acrossList, downList, errors) ==
  LET afterAcross == ParseClueLines([clues |-> NoClues, errors |-> errors,
                                     prevIdInt |-> 0], "across", acrossList, 1)
      afterDown == ParseClueLines([afterAcross EXCEPT !.prevIdInt = 0],
                                  "down", downList, 1)
  IN [clues |-> afterDown.clues,
      largestClueId |-> LargestClueId(afterDown.clues),
      errors |-> afterDown.errors]

(***************************************************************************)
(* parseSize                                                               *)
(***************************************************************************)

SizeMatchesWithoutHeight(sizeText) ==
  {p \in DOMAIN sizeText :
     /\ sizeText[p] = "x"
     /\ IsDigits(SubSeq(sizeText, 1, p - 1))
     /\ \A i \in p + 1..Len(sizeText) : IsDigit(sizeText[i])}

\* sizeText.match( /^(\d+)x(\d+)$/ ): the positions of an 'x' that has only
\* digits, and at least one, on each side
SizeMatches(sizeText) ==
  {p \in DOMAIN sizeText :
     /\ sizeText[p] = "x"
     /\ IsDigits(SubSeq(sizeText, 1, p - 1))
     /\ IsDigits(SubSeq(sizeText, p + 1, Len(sizeText)))}

parseSizeSwapped(sizeText, errors) ==
  IF SizeMatches(sizeText) # {} THEN
    LET p == CHOOSE q \in SizeMatches(sizeText) : TRUE
    IN [dimensions |-> [across |-> ParseInt(SubSeq(sizeText, p + 1, Len(sizeText))),
                        down |-> ParseInt(SubSeq(sizeText, 1, p - 1))],
        errors |-> errors]
  ELSE
    [dimensions |-> EmptyObject,
     errors |-> Append(errors, [msg |-> "could not parse size",
                                text |-> sizeText])]

\* parseSize(sizeText, errors): [dimensions, errors]
parseSize(sizeText, errors) ==
  IF SizeMatches(sizeText) # {} THEN
    LET p == CHOOSE q \in SizeMatches(sizeText) : TRUE
    IN [dimensions |-> [across |-> ParseInt(SubSeq(sizeText, 1, p - 1)),
                        down |-> ParseInt(SubSeq(sizeText, p + 1, Len(sizeText)))],
        errors |-> errors]
  ELSE
    [dimensions |-> EmptyObject,
     errors |-> Append(errors, [msg |-> "could not parse size",
                                text |-> sizeText])]

(***************************************************************************)
(* parseCluesIds                                                           *)
(***************************************************************************)

Null == [isNull |-> TRUE]

\* the truth value of clue.belongsTo
HasBelongsTo(clue) == HasOwnProperty(clue, "belongsTo") /\ clue.belongsTo # Null

ClueAt(clues, pair) == clues.at[pair.id][pair.direction]

SetClue(clues, pair, clue) ==
  [clues EXCEPT !.at[pair.id] = SetProperty(@, pair.direction, clue)]

\* bodyText.match( /^See (\d+)\s([aA]cross|[dD]own)$/ )
MatchesBodyBelongsTo(body) ==
  body.see /\ IsDigits(body.id) /\ body.dir \in {"across", "Across", "down", "Down"}

\* String.prototype.toLowerCase on a matched direction word
ToLowerCase(word) ==
  CASE word \in {"across", "Across"} -> "across"
    [] word \in {"down", "Down"} -> "down"

\* the first pass: belongsTo of one clue; st is [clues, errors]
BelongsToOfClue(st, pair) ==
  LET clue == ClueAt(st.clues, pair)
  IN IF ~MatchesBodyBelongsTo(clue.raw.bodyText) THEN
       [st EXCEPT !.clues = SetClue(@, pair, SetProperty(clue, "belongsTo", Null))]
     ELSE IF Len(clue.raw.idsText) # 1 THEN
       [st EXCEPT !.errors =
          Append(@, [msg |-> "belongs to a clue, but does not have a simple idsText",
                     id |-> clue.id, direction |-> clue.direction])]
     ELSE
       LET belongsTo == [id |-> clue.raw.bodyText.id,
                         direction |-> ToLowerCase(clue.raw.bodyText.dir)]
           clues1 == SetClue(st.clues, pair, SetProperty(clue, "belongsTo", belongsTo))
       IN IF ~CluesHasOwnProperty(clues1, belongsTo.id) THEN
            [clues |-> clues1,
             errors |-> Append(st.errors,
                               [msg |-> "belongs to an unknown id", id |-> clue.id,
                                direction |-> clue.direction])]
          ELSE IF ~HasOwnProperty(clues1.at[belongsTo.id], belongsTo.direction) THEN
            [clues |-> clues1,
             errors |-> Append(st.errors,
                               [msg |-> "belongs to an id without direction",
                                id |-> clue.id, direction |-> clue.direction])]
          ELSE [clues |-> clues1, errors |-> st.errors]

\* idItem.split(' '): [ownedId, ownedDirection] and whether there is a second piece
SplitIdItem(idItem) ==
  LET word == IF idItem.dir \in DOMAIN DirectionChars
                THEN DirectionChars[idItem.dir] ELSE <<>>
  IN IF idItem.sp = 0 THEN
       [ownedId |-> idItem.id \o word, hasDirection |-> FALSE, ownedDirection |-> ""]
     ELSE IF idItem.sp = 1 THEN
       [ownedId |-> idItem.id, hasDirection |-> TRUE, ownedDirection |-> idItem.dir]
     ELSE
       [ownedId |-> idItem.id, hasDirection |-> TRUE, ownedDirection |-> ""]

OwnedClueErrorsOnlyForDifferent(clue, ownedClue, ownedId, inferredDirection) ==
  IF HasBelongsTo(ownedClue)
     /\ (ownedClue.belongsTo.id # clue.id
         \/ ownedClue.belongsTo.direction # clue.direction) THEN
    <<[msg |-> "owns a clue which belongsTo a different clue", id |-> clue.id,
       direction |-> clue.direction, ownedId |-> ownedId,
       ownedDirection |-> inferredDirection]>>
  ELSE <<>>

OwnedClueErrorsOnlyForMissing(clue, ownedClue, ownedId, inferredDirection) ==
  IF ~HasBelongsTo(ownedClue) THEN
    <<[msg |-> "owns a clue which does not belongsTo anything", id |-> clue.id,
       direction |-> clue.direction, ownedId |-> ownedId,
       ownedDirection |-> inferredDirection]>>
  ELSE <<>>

\* the check of an owned clue against its owner
OwnedClueErrors(clue, ownedClue, ownedId, inferredDirection) ==
  IF ~HasBelongsTo(ownedClue) THEN
    <<[msg |-> "owns a clue which does not belongsTo anything", id |-> clue.id,
       direction |-> clue.direction, ownedId |-> ownedId,
       ownedDirection |-> inferredDirection]>>
  ELSE IF ownedClue.belongsTo.id # clue.id
          \/ ownedClue.belongsTo.direction # clue.direction THEN
    <<[msg |-> "owns a clue which belongsTo a different clue", id |-> clue.id,
       direction |-> clue.direction, ownedId |-> ownedId,
       ownedDirection |-> inferredDirection]>>
  ELSE <<>>

\* one turn of ownedIdsItems.forEach for the clue at pair; st is [clues, errors]
OwnsOfIdItem(st, pair, idItem) ==
  LET clue == ClueAt(st.clues, pair)
      split == SplitIdItem(idItem)
      ownedId == split.ownedId
      ownedDirection == split.ownedDirection
  IN IF ~CluesHasOwnProperty(st.clues, ownedId) THEN
       [st EXCEPT !.errors =
          Append(@, [msg |-> "owns an unknown id", id |-> clue.id,
                     direction |-> clue.direction, ownedId |-> ownedId])]
     ELSE IF split.hasDirection
             /\ ~HasOwnProperty(st.clues.at[ownedId], ownedDirection) THEN
       [st EXCEPT !.errors =
          Append(@, [msg |-> "owns an id with an unknown direction", id |-> clue.id,
                     direction |-> clue.direction, ownedId |-> ownedId])]
     ELSE IF ~split.hasDirection
             /\ Len(DirectionKeys(st.clues.at[ownedId])) = 2 THEN
       [st EXCEPT !.errors =
          Append(@, [msg |-> "owns an id with an ambiguous direction", id |-> clue.id,
                     direction |-> clue.direction, ownedId |-> ownedId])]
     ELSE
       LET inferredDirection == IF split.hasDirection THEN ownedDirection
                                ELSE DirectionKeys(st.clues.at[ownedId])[1]
           owner == [clue EXCEPT !.owns =
                       Append(@, [id |-> ownedId, direction |-> inferredDirection])]
           clues1 == SetClue(st.clues, pair, owner)
           ownedClue == clues1.at[ownedId][inferredDirection]
       IN [clues |-> clues1,
           errors |-> st.errors
                      \o OwnedClueErrors(owner, ownedClue, ownedId, inferredDirection)]

RECURSIVE OwnsOfIdItems(_, _, _)
OwnsOfIdItems(st, pair, ownedIdsItems) ==
  IF ownedIdsItems = <<>> THEN st
  ELSE OwnsOfIdItems(OwnsOfIdItem(st, pair, Head(ownedIdsItems)), pair,
                     Tail(ownedIdsItems))

\* the second pass: owns of one clue
OwnsOfClue(st, pair) ==
  LET clue == ClueAt(st.clues, pair)
      ownedIdsItems == Tail(clue.raw.idsText)
      emptied == [st EXCEPT !.clues =
                    SetClue(@, pair, SetProperty(clue, "owns", <<>>))]
  IN OwnsOfIdItems(emptied, pair, ownedIdsItems)

RECURSIVE BelongsToOfClues(_, _)
BelongsToOfClues(st, pairs) ==
  IF pairs = <<>> THEN st ELSE BelongsToOfClues(BelongsToOfClue(st, Head(pairs)), Tail(pairs))

RECURSIVE OwnsOfClues(_, _)
OwnsOfClues(st, pairs) ==
  IF pairs = <<>> THEN st ELSE OwnsOfClues(OwnsOfClue(st, Head(pairs)), Tail(pairs))

\* parseCluesIds(clues, errors): [clues, errors]
parseCluesIds(clues, errors) ==
  LET pairs == CluePairs(clues)
      first == BelongsToOfClues([clues |-> clues, errors |-> errors], pairs)
  IN OwnsOfClues(first, pairs)

(***************************************************************************)
(* parseCluesAnswers                                                       *)
(***************************************************************************)

placeHolderChar == "X"

\* String.prototype.repeat
Repeat(c, n) == [i \in 1..n |-> c]

\* part.wordOrNumber.match(/\d+/): the token holds a digit
HoldsDigit(tok) == \E i \in DOMAIN tok : IsDigit(tok[i])

PartOfCountingChars(token, sequence) ==
  LET part == [wordOrNumber |-> token.tok,
               sequence |-> sequence,
               text |-> token.tok,
               placeholder |-> HoldsDigit(token.tok),
               length |-> Len(token.tok)]
  IN IF sequence = 0 THEN part ELSE SetProperty(part, "separator", token.sep)

\* the part of one token of the answer text, completed
PartOf(token, sequence) ==
  LET text == IF HoldsDigit(token.tok)
                THEN Repeat(placeHolderChar, ParseInt(token.tok))
                ELSE token.tok
      part == [wordOrNumber |-> token.tok,
               sequence |-> sequence,
               text |-> text,
               placeholder |-> HoldsDigit(token.tok),
               length |-> Len(text)]
  IN IF sequence = 0 THEN part ELSE SetProperty(part, "separator", token.sep)

RECURSIVE SumLengths(_)
\* parts.reduce( (sum, part) => sum + part.length, 0)
SumLengths(parts) ==
  IF parts = <<>> THEN 0 ELSE Head(parts).length + SumLengths(Tail(parts))

\* the first loop: the answer of one clue, ownership ignored
AnswerOfClue(st, pair) ==
  LET clue == ClueAt(st.clues, pair)
      answerText == clue.raw.answerText
  IN IF ~(Len(answerText) >= 1 /\ MatchesSource(answerText[1].tok)) THEN
       [st EXCEPT
          !.clues = SetClue(@, pair, SetProperty(clue, "answer", [parts |-> <<>>])),
          !.errors = Append(@, [msg |-> "failed to parse first part of answer",
                                id |-> clue.id, direction |-> clue.direction])]
     ELSE
       LET parts == [i \in DOMAIN answerText |-> PartOf(answerText[i], i - 1)]
           answer == [parts |-> parts, length |-> SumLengths(parts)]
       IN [st EXCEPT !.clues = SetClue(@, pair, SetProperty(clue, "answer", answer))]

MultiPartOfClueOverTwo(st, pair) ==
  LET clue == ClueAt(st.clues, pair)
  IN IF HasBelongsTo(clue) /\ Len(clue.answer.parts) > 2 THEN
       [st EXCEPT !.errors =
          Append(@, [msg |-> "belongsTo another clue, but has a multi-part answer",
                     id |-> clue.id, direction |-> clue.direction])]
     ELSE st

\* the second loop: a clue that belongs to another has a one-part answer
MultiPartOfClue(st, pair) ==
  LET clue == ClueAt(st.clues, pair)
  IN IF HasBelongsTo(clue) /\ Len(clue.answer.parts) > 1 THEN
       [st EXCEPT !.errors =
          Append(@, [msg |-> "belongsTo another clue, but has a multi-part answer",
                     id |-> clue.id, direction |-> clue.direction])]
     ELSE st

\* The while loop that pops parts of the owner for one owned clue.  w is
\* [parts, remainingCount, partsSequence, remainingOwnedClueLength,
\*  remainingLength, thrown]: parts are the owner's parts (the popped ones
\* marked), remainingCount the length of remainingParts.
RECURSIVE PopPartsKeepingLength(_, _)
PopPartsKeepingLength(w, ownedPair) ==
  IF ~(w.remainingOwnedClueLength > 0) THEN w
  ELSE IF w.remainingCount = 0 THEN [w EXCEPT !.thrown = TRUE]
  ELSE
    LET latestPart == w.parts[w.remainingCount]
    IN PopPartsKeepingLength(
         [w EXCEPT !.parts[w.remainingCount] =
                     SetProperty(latestPart, "clue",
                                 [id |-> ownedPair.id,
                                  direction |-> ownedPair.direction]),
                   !.remainingCount = @ - 1,
                   !.partsSequence = <<latestPart.sequence>> \o @,
                   !.remainingOwnedClueLength = @ - latestPart.length],
         ownedPair)

RECURSIVE PopParts(_, _)
PopParts(w, ownedPair) ==
  IF ~(w.remainingOwnedClueLength > 0) THEN w
  ELSE IF w.remainingCount = 0 THEN [w EXCEPT !.thrown = TRUE]
  ELSE
    LET latestPart == w.parts[w.remainingCount]
    IN PopParts(
         [parts |-> [w.parts EXCEPT ![w.remainingCount] =
                       SetProperty(latestPart, "clue",
                                   [id |-> ownedPair.id,
                                    direction |-> ownedPair.direction])],
          remainingCount |-> w.remainingCount - 1,
          partsSequence |-> <<latestPart.sequence>> \o w.partsSequence,
          remainingOwnedClueLength |-> w.remainingOwnedClueLength - latestPart.length,
          remainingLength |-> w.remainingLength - latestPart.length,
          thrown |-> FALSE],
         ownedPair)

ReconcileOwnedContinuing(r, pair, owned) ==
  IF r.thrown \/ r.remainingLength = -1 THEN r
  ELSE
    LET ownedClue == ClueAt(r.clues, owned)
        owner == ClueAt(r.clues, pair)
        w == PopParts([parts |-> owner.answer.parts,
                       remainingCount |-> r.remainingCount,
                       partsSequence |-> <<>>,
                       remainingOwnedClueLength |-> ownedClue.answer.length,
                       remainingLength |-> r.remainingLength,
                       thrown |-> FALSE],
                      [id |-> ownedClue.id, direction |-> ownedClue.direction])
        clues1 == SetClue(r.clues, owned,
                          [ownedClue EXCEPT !.belongsTo =
                             SetProperty(@, "partsSequence", w.partsSequence)])
        clues2 == SetClue(clues1, pair,
                          [ClueAt(clues1, pair) EXCEPT !.answer.parts = w.parts])
    IN IF w.thrown THEN
         [r EXCEPT !.clues = clues2, !.remainingCount = w.remainingCount,
                   !.remainingLength = w.remainingLength, !.thrown = TRUE]
       ELSE IF w.remainingOwnedClueLength # 0 THEN
         [clues |-> clues2,
          errors |-> Append(r.errors,
                            [msg |-> "answer.parts cannot encompass the answer of ownedClue",
                             id |-> owner.id, direction |-> owner.direction,
                             ownedId |-> ownedClue.id,
                             ownedDirection |-> ownedClue.direction]),
          remainingCount |-> w.remainingCount,
          remainingLength |-> w.remainingLength,
          thrown |-> FALSE]
       ELSE
         [clues |-> clues2, errors |-> r.errors,
          remainingCount |-> w.remainingCount,
          remainingLength |-> w.remainingLength, thrown |-> FALSE]

\* one turn of reversedOwns.forEach for the owner at pair; r is
\* [clues, errors, remainingCount, remainingLength, thrown]
ReconcileOwned(r, pair, owned) ==
  IF r.thrown \/ r.remainingLength = -1 THEN r
  ELSE
    LET ownedClue == ClueAt(r.clues, owned)
        owner == ClueAt(r.clues, pair)
        w == PopParts([parts |-> owner.answer.parts,
                       remainingCount |-> r.remainingCount,
                       partsSequence |-> <<>>,
                       remainingOwnedClueLength |-> ownedClue.answer.length,
                       remainingLength |-> r.remainingLength,
                       thrown |-> FALSE],
                      [id |-> ownedClue.id, direction |-> ownedClue.direction])
        clues1 == SetClue(r.clues, owned,
                          [ownedClue EXCEPT !.belongsTo =
                             SetProperty(@, "partsSequence", w.partsSequence)])
        clues2 == SetClue(clues1, pair,
                          [ClueAt(clues1, pair) EXCEPT !.answer.parts = w.parts])
    IN IF w.thrown THEN
         [r EXCEPT !.clues = clues2, !.remainingCount = w.remainingCount,
                   !.remainingLength = w.remainingLength, !.thrown = TRUE]
       ELSE IF w.remainingOwnedClueLength # 0 THEN
         [clues |-> clues2,
          errors |-> Append(r.errors,
                            [msg |-> "answer.parts cannot encompass the answer of ownedClue",
                             id |-> owner.id, direction |-> owner.direction,
                             ownedId |-> ownedClue.id,
                             ownedDirection |-> ownedClue.direction]),
          remainingCount |-> w.remainingCount,
          remainingLength |-> -1,
          thrown |-> FALSE]
       ELSE
         [clues |-> clues2, errors |-> r.errors,
          remainingCount |-> w.remainingCount,
          remainingLength |-> w.remainingLength, thrown |-> FALSE]

RECURSIVE ReconcileAll(_, _, _)
ReconcileAll(r, pair, reversedOwns) ==
  IF reversedOwns = <<>> THEN r
  ELSE ReconcileAll(ReconcileOwned(r, pair, Head(reversedOwns)), pair,
                    Tail(reversedOwns))

\* Array.prototype.reverse
Reverse(seq) == [i \in DOMAIN seq |-> seq[Len(seq) + 1 - i]]

\* the third loop: the share of one owning clue; st is [clues, errors, thrown]
ReconcileClue(st, pair) ==
  LET clue == ClueAt(st.clues, pair)
  IN IF st.thrown \/ ~(Len(clue.owns) > 0) THEN st
     ELSE
       LET owning == [clue EXCEPT !.answer =
                        SetProperty(@, "lengthOwned", clue.answer.length)]
           r == ReconcileAll([clues |-> SetClue(st.clues, pair, owning),
                              errors |-> st.errors,
                              remainingCount |-> Len(clue.answer.parts),
                              remainingLength |-> clue.answer.length,
                              thrown |-> FALSE],
                             pair, Reverse(clue.owns))
           who == [id |-> clue.id, direction |-> clue.direction]
       IN IF r.thrown THEN
            [clues |-> r.clues, errors |-> r.errors, thrown |-> TRUE]
          ELSE IF r.remainingLength = -1 THEN
            [clues |-> r.clues,
             errors |-> Append(r.errors,
                               [msg |-> "answer.parts failed to encompass the answers of ownedClues"]
                               @@ who),
             thrown |-> FALSE]
          ELSE IF r.remainingLength = 0 THEN
            [clues |-> r.clues,
             errors |-> Append(r.errors,
                               [msg |-> "answer.parts have no length left"] @@ who),
             thrown |-> FALSE]
          ELSE IF r.remainingCount = 0 THEN
            [clues |-> r.clues,
             errors |-> Append(r.errors,
                               [msg |-> "has no answer.parts left"] @@ who),
             thrown |-> FALSE]
          ELSE
            [clues |-> SetClue(r.clues, pair,
                               [ClueAt(r.clues, pair) EXCEPT
                                  !.answer.length = r.remainingLength]),
             errors |-> r.errors,
             thrown |-> FALSE]

RECURSIVE AnswerOfClues(_, _)
AnswerOfClues(st, pairs) ==
  IF pairs = <<>> THEN st ELSE AnswerOfClues(AnswerOfClue(st, Head(pairs)), Tail(pairs))

RECURSIVE MultiPartOfClues(_, _)
MultiPartOfClues(st, pairs) ==
  IF pairs = <<>> THEN st ELSE MultiPartOfClues(MultiPartOfClue(st, Head(pairs)), Tail(pairs))

RECURSIVE ReconcileClues(_, _)
ReconcileClues(st, pairs) ==
  IF pairs = <<>> THEN st ELSE ReconcileClues(ReconcileClue(st, Head(pairs)), Tail(pairs))

\* parseCluesAnswers(clues, errors): [clues, errors, thrown]; thrown when the
\* pop of an empty remainingParts made latestPart undefined
parseCluesAnswers(clues, errors) ==
  LET pairs == CluePairs(clues)
      first == AnswerOfClues([clues |-> clues, errors |-> errors], pairs)
      second == MultiPartOfClues(first, pairs)
  IN ReconcileClues([clues |-> second.clues, errors |-> second.errors,
                     thrown |-> FALSE], pairs)

(***************************************************************************)
(* checkAnswersFitInDimensions and checkClueContiguity                     *)
(***************************************************************************)

FitErrorsOfClueExtentAcrossOnly(clue, dimensions) ==
  LET acrossest == clue.coords.across + clue.answer.length
      who == [id |-> clue.id, direction |-> clue.direction]
  IN (IF clue.coords.across > dimensions.across
        THEN <<[msg |-> "starts outside of the grid", axis |-> "across"] @@ who>>
        ELSE <<>>)
     \o (IF clue.coords.down > dimensions.down
           THEN <<[msg |-> "starts outside of the grid", axis |-> "down"] @@ who>>
           ELSE <<>>)
     \o (IF acrossest > dimensions.across
           THEN <<[msg |-> "ends outside of the grid", axis |-> "across"] @@ who>>
           ELSE <<>>)

FitErrorsOfClueStartOnly(clue, dimensions) ==
  LET who == [id |-> clue.id, direction |-> clue.direction]
  IN (IF clue.coords.across > dimensions.across
        THEN <<[msg |-> "starts outside of the grid", axis |-> "across"] @@ who>>
        ELSE <<>>)
     \o (IF clue.coords.down > dimensions.down
           THEN <<[msg |-> "starts outside of the grid", axis |-> "down"] @@ who>>
           ELSE <<>>)

\* the errors of one clue against the dimensions
FitErrorsOfClue(clue, dimensions) ==
  LET acrossest == clue.coords.across
                   + (IF clue.direction = "across" THEN clue.answer.length ELSE 0)
      downest == clue.coords.down
                 + (IF clue.direction = "down" THEN clue.answer.length ELSE 0)
      who == [id |-> clue.id, direction |-> clue.direction]
  IN (IF clue.coords.across > dimensions.across
        THEN <<[msg |-> "starts outside of the grid", axis |-> "across"] @@ who>>
        ELSE <<>>)
     \o (IF clue.coords.down > dimensions.down
           THEN <<[msg |-> "starts outside of the grid", axis |-> "down"] @@ who>>
           ELSE <<>>)
     \o (IF acrossest > dimensions.across
           THEN <<[msg |-> "ends outside of the grid", axis |-> "across"] @@ who>>
           ELSE <<>>)
     \o (IF downest > dimensions.down
           THEN <<[msg |-> "starts outside of the grid: downest", axis |-> "down"]
                  @@ who>>
           ELSE <<>>)

RECURSIVE FitErrors(_, _, _)
FitErrors(clues, pairs, dimensions) ==
  IF pairs = <<>> THEN <<>>
  ELSE FitErrorsOfClue(ClueAt(clues, Head(pairs)), dimensions)
       \o FitErrors(clues, Tail(pairs), dimensions)

\* checkAnswersFitInDimensions(clues, dimensions, errors): the errors
checkAnswersFitInDimensions(clues, dimensions, errors) ==
  errors \o FitErrors(clues, CluePairs(clues), dimensions)

RECURSIVE MissingErrors(_, _)
\* orderedCluesIdsInts.forEach( (idInt, i) => ... ), from position i (from 1)
MissingErrors(orderedCluesIdsInts, i) ==
  IF i > Len(orderedCluesIdsInts) THEN <<>>
  ELSE (IF orderedCluesIdsInts[i] # i
          THEN <<[msg |-> "missing clue", idInt |-> orderedCluesIdsInts[i]]>>
          ELSE <<>>)
       \o MissingErrors(orderedCluesIdsInts, i + 1)

RECURSIVE CoordsErrorsOfAcrossAxis(_, _)
CoordsErrorsOfAcrossAxis(clues, cluesIds) ==
  IF cluesIds = <<>> THEN <<>>
  ELSE LET id == Head(cluesIds)
           ofId == clues.at[id]
       IN (IF HasOwnProperty(ofId, "across") /\ HasOwnProperty(ofId, "down")
              /\ ofId.across.coords.across # ofId.down.coords.across
             THEN <<[msg |-> "different coords for across and down", id |-> id]>>
             ELSE <<>>)
          \o CoordsErrorsOfAcrossAxis(clues, Tail(cluesIds))

RECURSIVE CoordsErrors(_, _)
CoordsErrors(clues, cluesIds) ==
  IF cluesIds = <<>> THEN <<>>
  ELSE LET id == Head(cluesIds)
           ofId == clues.at[id]
       IN (IF HasOwnProperty(ofId, "across") /\ HasOwnProperty(ofId, "down")
              /\ (ofId.across.coords.across # ofId.down.coords.across
                  \/ ofId.across.coords.down # ofId.down.coords.down)
             THEN <<[msg |-> "different coords for across and down", id |-> id]>>
             ELSE <<>>)
          \o CoordsErrors(clues, Tail(cluesIds))

\* checkClueContiguity(clues, errors): the errors
checkClueContiguity(clues, errors) ==
  LET cluesIds == CluesKeys(clues)
      orderedCluesIdsInts == SortInts([i \in DOMAIN cluesIds |-> ParseInt(cluesIds[i])])
  IN errors \o MissingErrors(orderedCluesIdsInts, 1) \o CoordsErrors(clues, cluesIds)

(***************************************************************************)
(* parse and innerParse: one step per stage.  pc is the place in the code: *)
(* "parse" before the call, the name of the stage about to run, "return"   *)
(* when innerParse has returned, "returned" when parse has, "thrown" when  *)
(* an exception left parse.                                                *)
(***************************************************************************)

\* the text of no lines but one empty one: ''
EmptyText == <<BlankLine>>

\* The control flow of innerParse after a stage:
\* if (parsing.errors.length !== 0) { return parsing; }, else the next statement
innerParseWithoutSizeCheck(stage, errors) ==
  IF stage # "parseSize" /\ Len(errors) # 0 THEN "return"
  ELSE CASE stage = "scanYamlText" -> "parseAcrossAndDownLines"
         [] stage = "parseAcrossAndDownLines" -> "parseSize"
         [] stage = "parseSize" -> "parseCluesIds"
         [] stage = "parseCluesIds" -> "parseCluesAnswers"
         [] stage = "parseCluesAnswers" -> "checkAnswersFitInDimensions"
         [] stage = "checkAnswersFitInDimensions" -> "checkClueContiguity"
         [] stage = "checkClueContiguity" -> "return"

innerParse(stage, errors) ==
  IF Len(errors) # 0 THEN "return"
  ELSE CASE stage = "scanYamlText" -> "parseAcrossAndDownLines"
         [] stage = "parseAcrossAndDownLines" -> "parseSize"
         [] stage = "parseSize" -> "parseCluesIds"
         [] stage = "parseCluesIds" -> "parseCluesAnswers"
         [] stage = "parseCluesAnswers" -> "checkAnswersFitInDimensions"
         [] stage = "checkAnswersFitInDimensions" -> "checkClueContiguity"
         [] stage = "checkClueContiguity" -> "return"

IsValidWithOneError(errors) == Len(errors) <= 1

\* parsing.isValid = (parsing.errors.length == 0)
IsValid(errors) == Len(errors) = 0

ParseWithoutTextTest ==
  /\ pc = "parse"
  /\ parsing' = [errors |-> <<>>,
                 text |-> IF input.given THEN input.text ELSE EmptyText,
                 spec |-> "spec"]
  /\ pc' = "scanYamlText"
  /\ UNCHANGED <<input, stages>>

\* function parse( text='' ), to the first test of innerParse
Parse ==
  /\ pc = "parse"
  /\ LET text == IF input.given THEN input.text ELSE EmptyText
     IN IF text = EmptyText
          THEN /\ parsing' = [errors |-> <<[msg |-> "No text specified"]>>,
                              text |-> text, spec |-> "spec"]
               /\ pc' = "return"
          ELSE /\ parsing' = [errors |-> <<>>, text |-> text, spec |-> "spec"]
               /\ pc' = "scanYamlText"
  /\ UNCHANGED <<input, stages>>

ScanYamlText ==
  /\ pc = "scanYamlText"
  /\ LET scanned == scanYamlText(parsing.text, parsing.errors)
     IN /\ parsing' = ObjectAssign([parsing EXCEPT !.errors = scanned.errors],
                                   scanned.foundItems)
        /\ pc' = innerParse(pc, scanned.errors)
  /\ stages' = Append(stages, "scanYamlText")
  /\ UNCHANGED input

ParseAcrossAndDownLines ==
  /\ pc = "parseAcrossAndDownLines"
  /\ LET found == parseAcrossAndDownLines(parsing.across.list, parsing.down.list,
                                          parsing.errors)
     IN /\ parsing' = ObjectAssign([parsing EXCEPT !.errors = found.errors],
                                   [clues |-> found.clues,
                                    largestClueId |-> found.largestClueId])
        /\ pc' = innerParse(pc, found.errors)
  /\ stages' = Append(stages, "parseAcrossAndDownLines")
  /\ UNCHANGED input

ParseSize ==
  /\ pc = "parseSize"
  /\ LET parsed == parseSize(parsing.size.str, parsing.errors)
     IN /\ parsing' = ObjectAssign([parsing EXCEPT !.errors = parsed.errors],
                                   [dimensions |-> parsed.dimensions])
        /\ pc' = innerParse(pc, parsed.errors)
  /\ stages' = Append(stages, "parseSize")
  /\ UNCHANGED input

ParseCluesIds ==
  /\ pc = "parseCluesIds"
  /\ LET resolved == parseCluesIds(parsing.clues, parsing.errors)
     IN /\ parsing' = [parsing EXCEPT !.clues = resolved.clues,
                                      !.errors = resolved.errors]
        /\ pc' = innerParse(pc, resolved.errors)
  /\ stages' = Append(stages, "parseCluesIds")
  /\ UNCHANGED input

ParseCluesAnswers ==
  /\ pc = "parseCluesAnswers"
  /\ LET answered == parseCluesAnswers(parsing.clues, parsing.errors)
     IN /\ parsing' = [parsing EXCEPT !.clues = answered.clues,
                                      !.errors = answered.errors]
        /\ pc' = IF answered.thrown THEN "thrown"
                 ELSE innerParse(pc, answered.errors)
  /\ stages' = Append(stages, "parseCluesAnswers")
  /\ UNCHANGED input

CheckAnswersFitInDimensions ==
  /\ pc = "checkAnswersFitInDimensions"
  /\ LET errors == checkAnswersFitInDimensions(parsing.clues, parsing.dimensions,
                                               parsing.errors)
     IN /\ parsing' = [parsing EXCEPT !.errors = errors]
        /\ pc' = innerParse(pc, errors)
  /\ stages' = Append(stages, "checkAnswersFitInDimensions")
  /\ UNCHANGED input

CheckClueContiguity ==
  /\ pc = "checkClueContiguity"
  /\ LET errors == checkClueContiguity(parsing.clues, parsing.errors)
     IN /\ parsing' = [parsing EXCEPT !.errors = errors]
        /\ pc' = innerParse(pc, errors)
  /\ stages' = Append(stages, "checkClueContiguity")
  /\ UNCHANGED input

\* the end of parse: isValid is set and the object returned
Return ==
  /\ pc = "return"
  /\ parsing' = SetProperty(parsing, "isValid", IsValid(parsing.errors))
  /\ pc' = "returned"
  /\ UNCHANGED <<input, stages>>

Next ==
  \/ Parse
  \/ ScanYamlText
  \/ ParseAcrossAndDownLines
  \/ ParseSize
  \/ ParseCluesIds
  \/ ParseCluesAnswers
  \/ CheckAnswersFitInDimensions
  \/ CheckClueContiguity
  \/ Return

(***************************************************************************)
(* The input texts                                                         *)
(***************************************************************************)

MaxSizeLen == 4
MaxClueLines == 3
MaxParts == 3

\* all sequences over S of length at most n
RECURSIVE SeqsUpTo(_, _)
SeqsUpTo(S, n) ==
  IF n = 0 THEN {<<>>}
  ELSE LET shorter == SeqsUpTo(S, n - 1)
       IN shorter \cup {Append(q, e) : q \in {r \in shorter : Len(r) = n - 1}, e \in S}

\* a numeric answer token, and a one-token answer
Token(sep, n) == [sep |-> sep, tok |-> NumberToString(n)]

PlainBody == [see |-> FALSE, id |-> <<>>, dir |-> ""]
SeeBody(id, dir) == [see |-> TRUE, id |-> id, dir |-> dir]

FirstId(id) == [id |-> id, sp |-> 0, dir |-> ""]
OwnedId(id, dir) == [id |-> id, sp |-> 1, dir |-> dir]

\* '- (1,1) <id>. <body> (<answer>)'
Item(ids, body, answer) ==
  [x |-> <<"1">>, y |-> <<"1">>, ids |-> ids, body |-> body, answer |-> answer]

\* '- (1,1) <id>. Some clue (<n>)'
SimpleItem(id, n) == Item(<<FirstId(id)>>, PlainBody, <<Token("", n)>>)

\* '- (1,1) <id>. Some clue' : no answer, so no clue line
MalformedItem == Item(<<FirstId(<<"1">>)>>, PlainBody, <<>>)

SomeIds == {<<"1">>, <<"2">>, <<"3">>}

SimpleItems == {SimpleItem(id, 1) : id \in SomeIds} \cup {SimpleItem(<<"1">>, 3)}

Items(items) == [i \in DOMAIN items |-> ItemLine(items[i])]

ScalarLine(key, chars) == KeyLine(key, <<" ">> \o chars)
ListLine(key) == KeyLine(key, <<" ">>)

\* the eight scalar keys, size among them, then across and down with their items
HeaderText(sizeText, acrossItems, downItems) ==
  <<ScalarLine("version", <<"v">>), ScalarLine("name", <<"n">>),
    ScalarLine("author", <<"a">>), ScalarLine("editor", <<"e">>),
    ScalarLine("copyright", <<"c">>), ScalarLine("publisher", <<"p">>),
    ScalarLine("pubdate", <<"d">>), ScalarLine("size", sizeText),
    ListLine("across")>>
  \o Items(acrossItems) \o <<ListLine("down")>> \o Items(downItems)

GridSize == <<"3", "x", "3">>

SizeAlphabet == {"0", "2", "x", "y"}

\* headers with empty lists and any size text
SizeTexts ==
  {HeaderText(sz, <<>>, <<>>) :
     sz \in SeqsUpTo(SizeAlphabet, MaxSizeLen)
            \cup {<<" ", "2", "x", "2">>, <<"2", "x", "2", " ">>}}

\* headers with lists of simple (or malformed) items
ClueTexts ==
  {HeaderText(GridSize, a, d) :
     <<a, d>> \in {pr \in SeqsUpTo(SimpleItems \cup {MalformedItem}, MaxClueLines)
                          \X SeqsUpTo(SimpleItems \cup {MalformedItem}, MaxClueLines) :
                     Len(pr[1]) + Len(pr[2]) <= MaxClueLines}}

\* an across clue 1 that owns down clues 2 (and 3), with answers of every
\* shape; the owned clues' bodies all say 'See 1 Across', or all something else
OwnerTexts ==
  {HeaderText(<<"9", "x", "9">>,
              <<Item(<<FirstId(<<"1">>)>>
                       \o [i \in DOMAIN lens |-> OwnedId(NumberToString(i + 1), "down")],
                     PlainBody,
                     [i \in DOMAIN parts |->
                        Token(IF i = 1 THEN "" ELSE ",", parts[i])])>>,
              [i \in DOMAIN lens |->
                 Item(<<FirstId(NumberToString(i + 1))>>, body,
                      <<Token("", lens[i])>>)]) :
     body \in {SeeBody(<<"1">>, "Across"), SeeBody(<<"1">>, "down"), PlainBody},
     parts \in SeqsUpTo(0..2, MaxParts) \ {<<>>},
     lens \in SeqsUpTo(1..3, 2) \ {<<>>}}

OwnedIdSpaced(id, sp, dir) == [id |-> id, sp |-> sp, dir |-> dir]

\* what the body of down clue 2 may say
RelationBodies ==
  {PlainBody}
  \cup {SeeBody(<<"1">>, dir) : dir \in {"Across", "across", "Down"}}
  \cup {SeeBody(<<"3">>, dir) : dir \in {"Down", "down"}}
  \cup {SeeBody(<<"4">>, "Across"), SeeBody(<<"2">>, "Down")}

\* the ids that across clue 1 may list after its own
RelationOwned ==
  {<<>>}
  \cup {<<OwnedIdSpaced(<<"2">>, sp, dir)>> \o rest :
          sp \in 0..2, dir \in {"across", "down"},
          rest \in {<<>>, <<OwnedId(<<"3">>, "down")>>}}

\* across clue 1 with a three-part answer; down clue 2, whose body varies, and
\* down clue 3, which says 'See 1 Across'
RelationTexts ==
  {HeaderText(<<"9", "x", "9">>,
              <<Item(<<FirstId(<<"1">>)>> \o owned, PlainBody,
                     <<Token("", 1), Token(",", 1), Token(",", 1)>>)>>,
              <<Item(<<FirstId(<<"2">>)>>, body, <<Token("", 1)>>),
                Item(<<FirstId(<<"3">>)>>, SeeBody(<<"1">>, "Across"),
                     <<Token("", 1)>>)>>) :
     owned \in RelationOwned, body \in RelationBodies}

\* '- (<x>,<y>) <id>. Some clue (<n>)'
SimpleItemAt(x, y, id, n) ==
  [Item(<<FirstId(id)>>, PlainBody, <<Token("", n)>>) EXCEPT !.x = x, !.y = y]

\* the start coordinates written in a clue line
CoordChars == {<<"0">>, <<"1">>, <<"3">>, <<"4">>}

\* one clue, across or down, at every start and of length 1 or 3, in a 3x3 grid
CoordTexts ==
  {HeaderText(GridSize,
              IF direction = "across" THEN <<SimpleItemAt(x, y, <<"1">>, n)>> ELSE <<>>,
              IF direction = "down" THEN <<SimpleItemAt(x, y, <<"1">>, n)>> ELSE <<>>) :
     x \in CoordChars, y \in CoordChars, n \in {1, 3},
     direction \in {"across", "down"}}

\* answers of one, two and three parts, joined by commas
CommaAnswer(lengths) ==
  [i \in DOMAIN lengths |-> Token(IF i = 1 THEN "" ELSE ",", lengths[i])]

\* across clue 1, which may list down 2, and down clue 2, which may say
\* 'See 1 Across' and may have an answer of several parts
MultiPartTexts ==
  {HeaderText(<<"9", "x", "9">>,
              <<Item(<<FirstId(<<"1">>)>> \o owned, PlainBody, CommaAnswer(parts))>>,
              <<Item(<<FirstId(<<"2">>)>>, body, CommaAnswer(ownedParts))>>) :
     owned \in {<<>>, <<OwnedId(<<"2">>, "down")>>},
     parts \in {<<3>>, <<1, 2, 1>>, <<1>>},
     body \in {SeeBody(<<"1">>, "Across"), PlainBody},
     ownedParts \in {<<1>>, <<2, 1>>, <<1, 1, 1>>}}

\* the characters written between the two parts of an answer
SeparatorChars == {",", "-", "|", ";", "/", "+", "!", "~", " "}

\* one across clue with a two-part answer, the parts joined by each character
SeparatorTexts ==
  {HeaderText(<<"9", "x", "9">>,
              <<Item(<<FirstId(<<"1">>)>>, PlainBody,
                     <<Token("", 2), Token(sep, 1)>>)>>,
              <<>>) :
     sep \in SeparatorChars}

\* in a 3x3 grid, across clue 1 at (1,1) that owns down clue 2 and has a
\* two-part answer, of which down 2 ('See 1 Across') takes the last part
ResidualTexts ==
  {HeaderText(GridSize,
              <<Item(<<FirstId(<<"1">>), OwnedId(<<"2">>, "down")>>, PlainBody,
                     CommaAnswer(parts))>>,
              <<[Item(<<FirstId(<<"2">>)>>, SeeBody(<<"1">>, "Across"),
                      <<Token("", parts[2])>>) EXCEPT !.x = x]>>) :
     parts \in {<<1, 1>>, <<2, 1>>, <<1, 2>>, <<2, 2>>, <<3, 1>>},
     x \in {<<"1">>, <<"2">>}}

\* the starts written in the clue lines of ids met in both directions
StartPairs == {<<"1", "1">>, <<"1", "2">>, <<"2", "1">>}

\* in a 3x3 grid, clues 1 and 2, each both across and down, at every start
BothWaysTexts ==
  {HeaderText(GridSize,
              <<SimpleItemAt(<<a1[1]>>, <<a1[2]>>, <<"1">>, 1),
                SimpleItemAt(<<a2[1]>>, <<a2[2]>>, <<"2">>, 1)>>,
              <<SimpleItemAt(<<d1[1]>>, <<d1[2]>>, <<"1">>, 1),
                SimpleItemAt(<<d2[1]>>, <<d2[2]>>, <<"2">>, 1)>>) :
     a1 \in StartPairs, a2 \in StartPairs, d1 \in StartPairs, d2 \in StartPairs}

\* an id after the first that is written without a direction: ',2'
BareOwnedId(id) == [id |-> id, sp |-> 0, dir |-> ""]

\* across clue 1 that lists ',2' (or ',2 down'); down clue 2 says 'See 1
\* Across'; clue 2 may exist across as well
NoSuffixTexts ==
  {HeaderText(<<"9", "x", "9">>,
              <<Item(<<FirstId(<<"1">>), owned>>, PlainBody, CommaAnswer(<<1, 1>>))>>
                \o also,
              <<Item(<<FirstId(<<"2">>)>>, SeeBody(<<"1">>, "Across"),
                     <<Token("", 1)>>)>>) :
     owned \in {BareOwnedId(<<"2">>), OwnedId(<<"2">>, "down")},
     also \in {<<>>, <<SimpleItem(<<"2">>, 1)>>}}

\* across clue 1 that lists ',2 down' twice; down clue 2 says 'See 1 Across'
RepeatedOwnedTexts ==
  {HeaderText(<<"9", "x", "9">>,
              <<Item(<<FirstId(<<"1">>), OwnedId(<<"2">>, "down"),
                       OwnedId(<<"2">>, "down")>>,
                     PlainBody, CommaAnswer(parts))>>,
              <<Item(<<FirstId(<<"2">>)>>, SeeBody(<<"1">>, "Across"),
                     <<Token("", 1)>>)>>) :
     parts \in {<<1, 1, 1>>, <<2, 1, 1>>, <<2, 1>>, <<1, 2>>}}

\* the tokens of an answer: words and numbers, one with a leading zero
AnswerTokens == {<<"A", "B">>, <<"C">>, <<"2">>, <<"0", "3">>, <<"0">>, <<"1", "0">>}

\* one across clue whose answer has one or two tokens, words or numbers
WordAnswerTexts ==
  {HeaderText(<<"9", "x", "9">>,
              <<Item(<<FirstId(<<"1">>)>>, PlainBody,
                     [i \in DOMAIN toks |->
                        [sep |-> IF i = 1 THEN "" ELSE "-", tok |-> toks[i]]])>>,
              <<>>) :
     toks \in SeqsUpTo(AnswerTokens, 2) \ {<<>>}}

\* a text with one line left out, and with one line put in after line j
Omit(text, i) == SubSeq(text, 1, i - 1) \o SubSeq(text, i + 1, Len(text))
Insert(text, j, line) == SubSeq(text, 1, j) \o <<line>> \o SubSeq(text, j + 1, Len(text))

BaseTexts ==
  {HeaderText(GridSize, a, d) :
     a \in {<<>>, <<SimpleItem(<<"1">>, 1)>>},
     d \in {<<>>, <<SimpleItem(<<"2">>, 1)>>}}

ExtraLines ==
  {ScalarLine(k, <<"w">>) : k \in DOMAIN permittedKeys \cup {"other"}}
  \cup {ListLine(k) : k \in {"across", "down"}}
  \cup {ScalarLine("size", GridSize), BlankLine, OtherLine,
        ItemLine(SimpleItem(<<"3">>, 1))}

\* a header with a line that declares the name of a field of the result
ReservedKeyTexts ==
  {Insert(HeaderText(GridSize, <<>>, <<SimpleItem(<<"1">>, 1)>>), j,
          ScalarLine(k, <<"w">>)) :
     j \in {0, 8, 11}, k \in {"errors", "text", "spec", "clues"}}

EditedTexts ==
  UNION {{Omit(t, i) : i \in DOMAIN t} : t \in BaseTexts}
  \cup UNION {{Insert(t, j, line) : j \in 0..Len(t), line \in ExtraLines} : t \in BaseTexts}

Texts ==
  SizeTexts \cup ClueTexts \cup OwnerTexts \cup RelationTexts \cup SeparatorTexts
  \cup MultiPartTexts \cup CoordTexts \cup ReservedKeyTexts \cup EditedTexts
  \cup ResidualTexts
  \cup BothWaysTexts
  \cup NoSuffixTexts
  \cup RepeatedOwnedTexts
  \cup WordAnswerTexts
  \cup {EmptyText}

Inputs ==
  {[given |-> TRUE, text |-> t] : t \in Texts} \cup {[given |-> FALSE, text |-> <<>>]}

Init ==
  /\ input \in Inputs
  /\ pc = "parse"
  /\ parsing = EmptyObject
  /\ stages = <<>>

Spec == Init /\ [][Next]_vars

(***************************************************************************)
(* The claims                                                              *)
(***************************************************************************)

Returned == pc = "returned"

\* the stages in the order the specification gives them
stageOrder ==
  <<"scanYamlText", "parseAcrossAndDownLines", "parseSize", "parseCluesIds",
    "parseCluesAnswers", "checkAnswersFitInDimensions", "checkClueContiguity">>

\* C1: the result parse returns has isValid = true exactly when its errors
\* list is empty.
C1_ValidIffNoErrors ==
  Returned => (parsing.isValid <=> parsing.errors = <<>>)

\* a result with a single error, and invalid
C1_Witness ==
  Returned /\ Len(parsing.errors) = 1 /\ ~parsing.isValid

\* the stages that have run are the first stages of the fixed order
StagesInOrder ==
  /\ Len(stages) <= Len(stageOrder)
  /\ \A i \in DOMAIN stages : stages[i] = stageOrder[i]

\* a step from a state with a recorded error runs no stage, appends no error
\* and attaches no field (isValid, set at the very end, aside)
ErrorsHaltStages ==
  (HasOwnProperty(parsing, "errors") /\ parsing.errors # <<>>)
    => /\ stages' = stages
       /\ parsing'.errors = parsing.errors
       /\ \A k \in DOMAIN parsing' \ {"isValid"} :
            HasOwnProperty(parsing, k) /\ parsing'[k] = parsing[k]

\* C2: the stages run in the fixed order, and once a stage has recorded an
\* error no later stage runs, appends an error or attaches a field.
C2_StagesFailFast == [](StagesInOrder) /\ [][ErrorsHaltStages]_vars

\* the relationship stage recorded an error, and parse returned after it
C2_Witness ==
  /\ Returned /\ parsing.errors # <<>>
  /\ stages = SubSeq(stageOrder, 1, 4)
  /\ HasOwnProperty(parsing, "dimensions")

\* C3: parse returns a result for every input text and never throws.
C3_NeverThrows == pc # "thrown"

\* C4: parse with no text, or the empty text, yields exactly the 'No text'
\* error and isValid = false, runs no stage and populates no field.
C4_NoText ==
  (Returned /\ (~input.given \/ input.text = EmptyText))
    => /\ parsing.errors = <<[msg |-> "No text specified"]>>
       /\ parsing.isValid = FALSE
       /\ stages = <<>>
       /\ DOMAIN parsing = {"errors", "text", "spec", "isValid"}

\* parse was called without an argument, and has returned
C4_Witness == Returned /\ ~input.given

\* the errors of a list with a given message, in order
RECURSIVE ErrorsWith(_, _)
ErrorsWith(errors, msg) ==
  IF errors = <<>> THEN <<>>
  ELSE (IF Head(errors).msg = msg THEN <<Head(errors)>> ELSE <<>>)
       \o ErrorsWith(Tail(errors), msg)

\* a header the scanner accepts
HeaderValid(text) == scanYamlText(text, <<>>).errors = <<>>

\* the lines of a text that declare key
LinesOf(text, key) ==
  {i \in DOMAIN text : text[i].kind = "key" /\ text[i].key = key}

\* the next line after line pos that is not blank is a list item
FollowedByItem(text, pos) ==
  \E m \in DOMAIN text :
    /\ m > pos /\ text[m].kind = "item"
    /\ \A n \in (pos + 1)..(m - 1) : text[n].kind = "blank"

\* the input is the valid header t without its line i, which declares a key
OmittedFrom(t, i) ==
  /\ input.given /\ Len(input.text) = Len(t) - 1
  /\ t[i].kind = "key"
  /\ input.text = Omit(t, i)
  /\ HeaderValid(t)

\* C5, as claimed: in every case the 'missing keys' error is the only error.
C5_Original ==
  Returned =>
    \A t \in BaseTexts : \A i \in DOMAIN t :
      OmittedFrom(t, i) =>
        /\ Len(parsing.errors) = 1
        /\ parsing.errors[1].msg = "missing keys"
        /\ t[i].key \in Range(parsing.errors[1].keys)
        /\ parsing.isValid = FALSE

\* C5: omitting the line that declares key k from an otherwise valid header
\* yields exactly one 'missing keys' error, which names k, and isValid =
\* false; it is the only error when k is scalar-typed or the list that k
\* declares is empty.
C5_MissingKey ==
  Returned =>
    \A t \in BaseTexts : \A i \in DOMAIN t :
      OmittedFrom(t, i) =>
        LET missing == ErrorsWith(parsing.errors, "missing keys")
        IN /\ Len(missing) = 1
           /\ missing[1].keys = <<t[i].key>>
           /\ parsing.isValid = FALSE
           /\ (permittedKeys[t[i].key] = "string" \/ ~FollowedByItem(t, i))
                => Len(parsing.errors) = 1

\* the line of a scalar key, and that of the key of an empty list, left out
C5_Witness ==
  /\ Returned /\ Len(parsing.errors) = 1
  /\ \E t \in BaseTexts : \E i \in DOMAIN t :
       OmittedFrom(t, i) /\ t[i].key \in {"version", "down"}

\* the input is the valid header t with a second declaration of a permitted
\* key put in after line j, below the first declaration of that key
DeclaredAgainIn(t, j, line) ==
  /\ input.given /\ Len(input.text) = Len(t) + 1
  /\ line.kind = "key" /\ HasOwnProperty(permittedKeys, line.key)
  /\ \E i \in LinesOf(t, line.key) : i <= j
  /\ input.text = Insert(t, j, line)
  /\ HeaderValid(t)

\* C6, as claimed: in every case the 'duplicate key' error is the only error.
C6_Original ==
  Returned =>
    \A t \in BaseTexts : \A j \in 0..Len(t) : \A line \in ExtraLines :
      DeclaredAgainIn(t, j, line) =>
        /\ Len(parsing.errors) = 1
        /\ parsing.errors[1].msg = "duplicate key"
        /\ parsing.errors[1].key = line.key
        /\ parsing.isValid = FALSE

\* C6: declaring a permitted key k (scalar or list-typed) a second time in an
\* otherwise valid header yields exactly one 'duplicate key' error, which
\* names k, and isValid = false; it is the only error when no list item
\* follows the second declaration before the next key line.
C6_DuplicateKey ==
  Returned =>
    \A t \in BaseTexts : \A j \in 0..Len(t) : \A line \in ExtraLines :
      DeclaredAgainIn(t, j, line) =>
        LET duplicates == ErrorsWith(parsing.errors, "duplicate key")
        IN /\ Len(duplicates) = 1
           /\ duplicates[1].key = line.key
           /\ parsing.isValid = FALSE
           /\ ~FollowedByItem(t, j) => Len(parsing.errors) = 1

\* a list key declared a second time, as the last line
C6_Witness ==
  /\ Returned /\ Len(parsing.errors) = 1
  /\ \E t \in BaseTexts :
       DeclaredAgainIn(t, Len(t), ListLine("across"))

\* WIDTHxHEIGHT: decimal digits, an 'x', decimal digits
IsSizeShape(chars) ==
  \E w, h \in 1..Len(chars) :
    /\ w + 1 + h = Len(chars)
    /\ chars[w + 1] = "x"
    /\ \A i \in 1..w : IsDigit(chars[i])
    /\ \A i \in (w + 2)..Len(chars) : IsDigit(chars[i])

\* the number a string of decimal digits writes
RECURSIVE DecimalValue(_)
DecimalValue(chars) ==
  IF chars = <<>> THEN 0
  ELSE 10 * DecimalValue(SubSeq(chars, 1, Len(chars) - 1))
       + DigitVal(chars[Len(chars)])

\* the text after 'size:', leading blanks dropped
SizeTextOf(text) ==
  TrimLeft(text[CHOOSE i \in LinesOf(text, "size") : TRUE].value)

\* every permitted key declared exactly once
DeclaresEachKeyOnce(text) ==
  \A k \in DOMAIN permittedKeys : Cardinality(LinesOf(text, k)) = 1

\* a header of key lines only (blank lines aside): every permitted key
\* declared once and no other key, nothing after 'across:' and 'down:',
\* and no list item
HeaderWithEmptyLists(text) ==
  /\ DeclaresEachKeyOnce(text)
  /\ \A i \in DOMAIN text :
       \/ text[i].kind = "blank"
       \/ /\ text[i].kind = "key"
          /\ HasOwnProperty(permittedKeys, text[i].key)
          /\ permittedKeys[text[i].key] = "list" => TrimLeft(text[i].value) = <<>>

\* C7: a header that declares every permitted key once, with a size
\* WIDTHxHEIGHT and empty across and down lists, parses with no error and
\* isValid = true, runs every stage, and has dimensions WIDTH and HEIGHT.
C7_ValidHeader ==
  (Returned /\ input.given /\ HeaderWithEmptyLists(input.text)
     /\ IsSizeShape(SizeTextOf(input.text)))
    => LET sizeText == SizeTextOf(input.text)
           x == CHOOSE p \in DOMAIN sizeText : sizeText[p] = "x"
       IN /\ parsing.errors = <<>>
          /\ parsing.isValid = TRUE
          /\ stages = stageOrder
          /\ parsing.dimensions.across = DecimalValue(SubSeq(sizeText, 1, x - 1))
          /\ parsing.dimensions.down
               = DecimalValue(SubSeq(sizeText, x + 1, Len(sizeText)))

\* the size 20x2
C7_Witness ==
  /\ Returned /\ input.given /\ HeaderWithEmptyLists(input.text)
  /\ SizeTextOf(input.text) = <<"2", "0", "x", "2">>
  /\ parsing.isValid

\* the header scan and the clue-line stage accept the text
ValidButForSize(text) ==
  /\ HeaderValid(text)
  /\ LET foundItems == scanYamlText(text, <<>>).foundItems
     IN parseAcrossAndDownLines(foundItems.across.list, foundItems.down.list,
                                <<>>).errors = <<>>

\* C8: in an otherwise valid header a size that is not WIDTHxHEIGHT yields
\* exactly one error, 'could not parse size', and isValid = false, and no
\* dimension value is set.
C8_BadSize ==
  (Returned /\ input.given /\ DeclaresEachKeyOnce(input.text)
     /\ ~IsSizeShape(SizeTextOf(input.text)) /\ ValidButForSize(input.text))
    => /\ Len(parsing.errors) = 1
       /\ parsing.errors[1].msg = "could not parse size"
       /\ parsing.isValid = FALSE
       /\ ~HasOwnProperty(parsing.dimensions, "across")
       /\ ~HasOwnProperty(parsing.dimensions, "down")

\* the size 2xy2
C8_Witness ==
  /\ Returned /\ input.given /\ DeclaresEachKeyOnce(input.text)
  /\ SizeTextOf(input.text) = <<"2", "x", "y", "2">>
  /\ ValidButForSize(input.text)

\* the canonical ids, as numbers, of the list items that are clue lines
ParsedClueIds ==
  {DecimalValue(item.ids[1].id) :
     item \in {it \in Range(parsing.across.list) \cup Range(parsing.down.list) :
                 MatchesClueRegex(it)}}

Maximum(S) == CHOOSE n \in S : \A m \in S : m <= n

\* C9: after the clue-line stage largestClueId is the decimal string of the
\* largest canonical id of the parsed clue lines of both directions, "0" when
\* there is none, whatever the order and direction of the lines.
C9_LargestClueId ==
  HasOwnProperty(parsing, "largestClueId") =>
    parsing.largestClueId
      = IF ParsedClueIds = {} THEN <<"0">>
        ELSE NumberToString(Maximum(ParsedClueIds))

\* the largest id is that of the first across line, and smaller ones follow
C9_Witness ==
  /\ HasOwnProperty(parsing, "largestClueId")
  /\ parsing.largestClueId = <<"3">>
  /\ Len(parsing.across.list) >= 1 /\ Len(parsing.down.list) >= 1
  /\ parsing.across.list[1].ids[1].id = <<"3">>
  /\ 1 \in ParsedClueIds

\* C10: two clue lines of one direction with the same canonical id make the
\* clue-line stage record a 'duplicate' error, and the record of the first
\* line is kept.
C10_DuplicateClue ==
  HasOwnProperty(parsing, "clues") =>
    \A direction \in Range(directions) :
      LET list == parsing[direction].list
      IN \A i, j \in DOMAIN list :
           (/\ i < j
            /\ MatchesClueRegex(list[i]) /\ MatchesClueRegex(list[j])
            /\ list[i].ids[1].id = list[j].ids[1].id
            /\ \A h \in 1..(i - 1) : ~MatchesClueRegex(list[h])
                                      \/ list[h].ids[1].id # list[i].ids[1].id)
             => /\ ErrorsWith(parsing.errors, "duplicate") # <<>>
                /\ parsing.clues.at[list[i].ids[1].id][direction].raw.clueTextSequenceId
                     = i - 1

\* the clue-line stage has run
CluesParsed == HasOwnProperty(parsing, "clues")

\* the index of the last clue line before line i of a list, 0 when none
PrevParsed(list, i) ==
  LET before == {j \in 1..(i - 1) : MatchesClueRegex(list[j])}
  IN IF before = {} THEN 0 ELSE Maximum(before)

\* line i is a clue line whose id is lower than that of the clue line before it
IsDescent(list, i) ==
  /\ MatchesClueRegex(list[i])
  /\ PrevParsed(list, i) > 0
  /\ DecimalValue(list[PrevParsed(list, i)].ids[1].id) > DecimalValue(list[i].ids[1].id)

\* one 'out of id order' error for each descent of a list, from line i on
RECURSIVE OrderErrorsFrom(_, _, _)
OrderErrorsFrom(list, direction, i) ==
  IF i > Len(list) THEN <<>>
  ELSE (IF IsDescent(list, i)
          THEN <<[msg |-> "out of id order", id |-> list[i].ids[1].id,
                  direction |-> direction]>>
          ELSE <<>>)
       \o OrderErrorsFrom(list, direction, i + 1)

\* C11, as claimed: out-of-order lines in a direction yield exactly one
\* 'order' error.
C11_Original ==
  (CluesParsed /\ \E direction \in Range(directions) :
                    \E i \in DOMAIN parsing[direction].list :
                      IsDescent(parsing[direction].list, i))
    => Len(ErrorsWith(parsing.errors, "out of id order")) = 1

\* C11: the clue-line stage records one 'order' error for each clue line
\* whose id is lower than the id of the previous parsed line of the same
\* direction, and no other; the comparison restarts for each direction, so an
\* id lower than an id of the other direction is no error.
C11_OutOfOrder ==
  CluesParsed =>
    ErrorsWith(parsing.errors, "out of id order")
      = OrderErrorsFrom(parsing.across.list, "across", 1)
        \o OrderErrorsFrom(parsing.down.list, "down", 1)

\* across 3 then 2, down 1: one error, for across 2
C11_Witness ==
  /\ CluesParsed
  /\ Len(parsing.across.list) = 2 /\ Len(parsing.down.list) = 1
  /\ parsing.across.list[1] = SimpleItem(<<"3">>, 1)
  /\ parsing.across.list[2] = SimpleItem(<<"2">>, 1)
  /\ parsing.down.list[1] = SimpleItem(<<"1">>, 1)
  /\ Len(ErrorsWith(parsing.errors, "out of id order")) = 1

\* the clue records of the result, as (id, direction) pairs
ClueRecords ==
  {pair \in {[id |-> id, direction |-> direction] :
               id \in DOMAIN parsing.clues.at, direction \in Range(directions)} :
     HasOwnProperty(parsing.clues.at[pair.id], pair.direction)}

\* pair names a clue record of the result
IsClueRecord(pair) ==
  /\ HasOwnProperty(parsing.clues.at, pair.id)
  /\ HasOwnProperty(parsing.clues.at[pair.id], pair.direction)

\* C12: in every valid result every non-null belongsTo names a lower-cased
\* (id, direction) of the clue map; the owns list of a clue has one entry for
\* each id after the first of its id list, in that order; and every owns
\* entry names a clue record whose belongsTo is the owner's (id, direction).
C12_ReferenceIntegrity ==
  (Returned /\ parsing.isValid /\ CluesParsed) =>
    \A pair \in ClueRecords :
      LET clue == ClueAt(parsing.clues, pair)
          ids == clue.raw.idsText
      IN /\ clue.belongsTo # Null =>
              /\ clue.belongsTo.direction \in Range(directions)
              /\ IsClueRecord(clue.belongsTo)
         /\ Len(clue.owns) = Len(ids) - 1
         /\ \A i \in DOMAIN clue.owns :
              /\ clue.owns[i].id = ids[i + 1].id
              /\ IsClueRecord(clue.owns[i])
              /\ ClueAt(parsing.clues, clue.owns[i]).belongsTo # Null
              /\ ClueAt(parsing.clues, clue.owns[i]).belongsTo.id = clue.id
              /\ ClueAt(parsing.clues, clue.owns[i]).belongsTo.direction
                   = clue.direction

\* a valid result in which across 1 owns down 2 and down 3, both of which
\* say 'See 1 Across'
C12_Witness ==
  /\ Returned /\ parsing.isValid /\ CluesParsed
  /\ IsClueRecord([id |-> <<"1">>, direction |-> "across"])
  /\ Len(parsing.clues.at[<<"1">>].across.owns) = 2
  /\ IsClueRecord([id |-> <<"2">>, direction |-> "down"])
  /\ parsing.clues.at[<<"2">>].down.raw.bodyText = SeeBody(<<"1">>, "Across")
  /\ parsing.clues.at[<<"2">>].down.belongsTo.id = <<"1">>
  /\ parsing.clues.at[<<"2">>].down.belongsTo.direction = "across"

\* relationship resolution has run
RelationshipsResolved == Len(stages) >= 4

\* the body of the clue at named does not say 'See <id> <direction>' with the
\* id and direction of the clue at owner
DoesNotBelongTo(named, owner) ==
  LET body == ClueAt(parsing.clues, named).raw.bodyText
  IN \/ ~MatchesBodyBelongsTo(body)
     \/ body.id # owner.id
     \/ ToLowerCase(body.dir) # owner.direction

\* some clue lists, after its own id, a clue that does not belong to it
OwnsStranger ==
  \E owner \in ClueRecords :
    LET ids == ClueAt(parsing.clues, owner).raw.idsText
    IN \E i \in 2..Len(ids) :
         LET named == [id |-> ids[i].id, direction |-> ids[i].dir]
         IN IsClueRecord(named) /\ DoesNotBelongTo(named, owner)

\* C13: when a clue named in another clue's id list declares no belongs-to,
\* or one that names another (id, direction) than the owning clue,
\* relationship resolution records an error and the result is invalid.
C13_OwnedMustBelong ==
  (RelationshipsResolved /\ OwnsStranger) =>
    /\ parsing.errors # <<>>
    /\ stages = SubSeq(stageOrder, 1, 4)
    /\ Returned => parsing.isValid = FALSE

\* across 1 lists down 2, whose body says 'See 3 Down'
C13_Witness ==
  /\ Returned /\ RelationshipsResolved /\ OwnsStranger
  /\ \E i \in DOMAIN parsing.errors :
       parsing.errors[i].msg = "owns a clue which belongsTo a different clue"

\* the sum of the length fields of a sequence of parts
RECURSIVE TotalLength(_)
TotalLength(parts) ==
  IF parts = <<>> THEN 0
  ELSE parts[1].length + TotalLength(Tail(parts))

\* the sum of the answer lengths of the clues of an owns list
RECURSIVE OwnedLength(_)
OwnedLength(owns) ==
  IF owns = <<>> THEN 0
  ELSE ClueAt(parsing.clues, owns[1]).answer.length + OwnedLength(Tail(owns))

\* C14: in a valid result, for every clue that owns others, answer.lengthOwned
\* is the sum of the lengths of all its parts, and answer.length is
\* lengthOwned less the answer lengths of the owned clues, and is positive.
C14_OwnedLengths ==
  (Returned /\ parsing.isValid /\ CluesParsed) =>
    \A pair \in ClueRecords :
      LET clue == ClueAt(parsing.clues, pair)
      IN clue.owns # <<>> =>
           /\ clue.answer.lengthOwned = TotalLength(clue.answer.parts)
           /\ clue.answer.length
                = clue.answer.lengthOwned - OwnedLength(clue.owns)
           /\ clue.answer.length > 0

\* parts (2,1,2) with owned clues of lengths 1 and 2: length 2, lengthOwned 5
C14_Witness ==
  /\ Returned /\ parsing.isValid /\ CluesParsed
  /\ IsClueRecord([id |-> <<"1">>, direction |-> "across"])
  /\ Len(parsing.clues.at[<<"1">>].across.owns) = 2
  /\ parsing.clues.at[<<"1">>].across.answer.lengthOwned = 5
  /\ parsing.clues.at[<<"1">>].across.answer.length = 2

\* the answer stage has run and returned
AnswersSegmented == Len(stages) >= 5 /\ pc # "thrown"

\* comma, vertical bar and hyphen
SpecifiedSeparators == {",", "|", "-"}

\* line i of a list joins two parts of its answer by another character
HasOtherSeparator(item) ==
  \E i \in 2..Len(item.answer) : item.answer[i].sep \notin SpecifiedSeparators

\* C15: in every accepted clue the first answer part carries no separator and
\* every later part the character written before it, which is a comma, a
\* vertical bar or a hyphen; a line whose answer parts are joined by another
\* character is not accepted as a clue line.
C15_Separators ==
  /\ AnswersSegmented =>
       \A pair \in ClueRecords :
         LET clue == ClueAt(parsing.clues, pair)
             parts == clue.answer.parts
         IN /\ Len(parts) = Len(clue.raw.answerText)
            /\ \A i \in DOMAIN parts :
                 IF i = 1 THEN ~HasOwnProperty(parts[i], "separator")
                 ELSE /\ parts[i].separator = clue.raw.answerText[i].sep
                      /\ parts[i].separator \in SpecifiedSeparators
  /\ CluesParsed =>
       \A direction \in Range(directions) :
         \A c \in DOMAIN parsing[direction].list :
           HasOtherSeparator(parsing[direction].list[c]) =>
             \E e \in DOMAIN parsing.errors :
               parsing.errors[e] = [msg |-> "could not parse clue",
                                    direction |-> direction, c |-> c - 1]

\* the answer stage has run, whether it returned or not
AnswerStageRan == Len(stages) >= 5

\* C16: the answer stage records a 'belongsTo another clue, but has a
\* multi-part answer' error for every clue that holds a belongs-to and has
\* more than one answer part, and the result is then invalid; so in every
\* valid result each clue with a non-null belongsTo has one answer part.
C16_OwnedSinglePart ==
  /\ AnswerStageRan =>
       \A pair \in ClueRecords :
         LET clue == ClueAt(parsing.clues, pair)
         IN (clue.belongsTo # Null /\ Len(clue.raw.answerText) > 1) =>
              /\ \E e \in DOMAIN parsing.errors :
                   parsing.errors[e]
                     = [msg |-> "belongsTo another clue, but has a multi-part answer",
                        id |-> pair.id, direction |-> pair.direction]
              /\ Returned => parsing.isValid = FALSE
  /\ (Returned /\ parsing.isValid /\ CluesParsed) =>
       \A pair \in ClueRecords :
         LET clue == ClueAt(parsing.clues, pair)
         IN clue.belongsTo # Null => Len(clue.answer.parts) = 1

\* down 2 says 'See 1 Across' and has the answer (2,1)
C16_Witness ==
  /\ Returned /\ AnswerStageRan
  /\ IsClueRecord([id |-> <<"2">>, direction |-> "down"])
  /\ parsing.clues.at[<<"2">>].down.belongsTo # Null
  /\ Len(parsing.clues.at[<<"2">>].down.answer.parts) = 2
  /\ parsing.isValid = FALSE

\* the grid check has run
BoundsChecked == Len(stages) >= 6

\* the four tests of a clue against the grid: its start on each axis, and its
\* start plus its answer length along its direction
GridTests(clue) ==
  LET extent(axis) == clue.coords[axis]
                      + (IF clue.direction = axis THEN clue.answer.length ELSE 0)
  IN <<clue.coords.across > parsing.dimensions.across,
       clue.coords.down > parsing.dimensions.down,
       extent("across") > parsing.dimensions.across,
       extent("down") > parsing.dimensions.down>>

\* the clues whose start or extent exceeds the grid
Offenders ==
  {pair \in ClueRecords :
     \E t \in 1..4 : GridTests(ClueAt(parsing.clues, pair))[t]}

\* the grid errors, all of which contain 'outside'
OutsideMessages ==
  {"starts outside of the grid", "ends outside of the grid",
   "starts outside of the grid: downest"}

\* C17, as claimed: a single offending clue yields exactly one 'outside' error.
C17_Original ==
  (BoundsChecked /\ Cardinality(Offenders) = 1) =>
    /\ Len(parsing.errors) = 1
    /\ parsing.errors[1].msg \in OutsideMessages
    /\ Returned => parsing.isValid = FALSE

\* C17: a single clue whose start or extent exceeds the grid, in an otherwise
\* valid puzzle, yields one 'outside' error for each of the four grid tests
\* it fails and no other error, and isValid = false; that is exactly one
\* error when its start lies within the grid, and at least two when it does
\* not.
C17_OutsideGrid ==
  (BoundsChecked /\ Cardinality(Offenders) = 1) =>
    LET pair == CHOOSE p \in Offenders : TRUE
        tests == GridTests(ClueAt(parsing.clues, pair))
        startInside == ~tests[1] /\ ~tests[2]
    IN /\ Len(parsing.errors) = Cardinality({t \in 1..4 : tests[t]})
       /\ \A e \in DOMAIN parsing.errors :
            /\ parsing.errors[e].msg \in OutsideMessages
            /\ parsing.errors[e].id = pair.id
            /\ parsing.errors[e].direction = pair.direction
       /\ IF startInside THEN Len(parsing.errors) = 1
          ELSE Len(parsing.errors) >= 2
       /\ stages = SubSeq(stageOrder, 1, 6)
       /\ Returned => parsing.isValid = FALSE

\* an across clue that starts inside the 3x3 grid at (3,1) and has length 3
C17_Witness ==
  /\ Returned /\ BoundsChecked /\ Cardinality(Offenders) = 1
  /\ IsClueRecord([id |-> <<"1">>, direction |-> "across"])
  /\ parsing.clues.at[<<"1">>].across.coords = [across |-> 3, down |-> 1]
  /\ parsing.clues.at[<<"1">>].across.answer.length = 3
  /\ Len(parsing.errors) = 1

\* the contiguity check has run
ContiguityChecked == Len(stages) = 7

\* the ids of the clue map, as numbers
ClueIdInts == {DecimalValue(id) : id \in DOMAIN parsing.clues.at}

\* the integers from 1 to the largest id that are no clue id
AbsentIds ==
  IF ClueIdInts = {} THEN {}
  ELSE {n \in 1..Maximum(ClueIdInts) : n \notin ClueIdInts}

\* C18: the contiguity check records no 'missing clue' error exactly when the
\* clue ids are 1..N; otherwise it records one 'missing clue' error for each
\* integer of 1..max(id) that is no clue id, and each names such an integer.
C18_MissingClues ==
  ContiguityChecked =>
    LET missing == ErrorsWith(parsing.errors, "missing clue")
    IN /\ missing = <<>> <=> AbsentIds = {}
       /\ Len(missing) = Cardinality(AbsentIds)
       /\ \A e \in DOMAIN missing : missing[e].idInt \in AbsentIds

\* the size stage has run and recorded no error
SizeParsed ==
  \/ Len(stages) = 3 /\ parsing.errors = <<>>
  \/ Len(stages) >= 4

\* C19: whenever the size stage records no error, dimensions.across and
\* dimensions.down are strictly positive; a size of zero width or height is
\* not a successful parse.
C19_PositiveDimensions ==
  SizeParsed =>
    /\ HasOwnProperty(parsing.dimensions, "across")
    /\ HasOwnProperty(parsing.dimensions, "down")
    /\ parsing.dimensions.across > 0
    /\ parsing.dimensions.down > 0

\* the header scan has run
Scanned == Len(stages) >= 1

\* the header scan has run and recorded no error
ScannedWithoutError ==
  \/ Len(stages) = 1 /\ parsing.errors = <<>>
  \/ Len(stages) >= 2

\* the fields of the result that no header key names
ResultFields ==
  {"errors", "text", "spec", "isValid", "clues", "largestClueId", "dimensions"}

\* the list items from line j of a text up to the next key line
RECURSIVE ItemsFrom(_, _)
ItemsFrom(text, j) ==
  IF j > Len(text) \/ text[j].kind = "key" THEN <<>>
  ELSE (IF text[j].kind = "item" THEN <<text[j].item>> ELSE <<>>)
       \o ItemsFrom(text, j + 1)

\* the value that the one line declaring key gives it
DeclaredValue(text, key) ==
  LET i == CHOOSE j \in LinesOf(text, key) : TRUE
  IN IF permittedKeys[key] = "list" THEN [list |-> ItemsFrom(text, i + 1)]
     ELSE [str |-> TrimLeft(text[i].value)]

\* C20: whenever the header scan records no error the field map holds exactly
\* the ten permitted keys, each declared exactly once in the text, across and
\* down as the lists of the bullet lines after them and the others as
\* strings; no other key is ever stored, so the errors, text and spec fields
\* of the result are never overwritten by a header line.
C20_FieldMap ==
  /\ ScannedWithoutError =>
       /\ DOMAIN parsing \ ResultFields = DOMAIN permittedKeys
       /\ \A key \in DOMAIN permittedKeys :
            /\ Cardinality(LinesOf(input.text, key)) = 1
            /\ parsing[key] = DeclaredValue(input.text, key)
  /\ Scanned =>
       /\ DOMAIN parsing \ ResultFields \subseteq DOMAIN permittedKeys
       /\ parsing.text = input.text
       /\ parsing.spec = "spec"
       /\ \A e \in DOMAIN parsing.errors : HasOwnProperty(parsing.errors[e], "msg")
       /\ \A i \in DOMAIN input.text :
            (input.text[i].kind = "key"
             /\ ~HasOwnProperty(permittedKeys, input.text[i].key))
              => \E e \in DOMAIN parsing.errors :
                   parsing.errors[e] = [msg |-> "unrecognised key",
                                        key |-> input.text[i].key, line |-> i - 1]

\* a scan without error of a text with a blank line and items in both lists
C20_Witness ==
  /\ pc = "parseAcrossAndDownLines" /\ ScannedWithoutError
  /\ Len(parsing.across.list) = 1 /\ Len(parsing.down.list) = 1
  /\ \E i \in DOMAIN input.text : input.text[i].kind = "blank"

\* a scan of a text that declares 'errors: w'
C20_ReservedKeyWitness ==
  /\ Scanned
  /\ \E i \in DOMAIN input.text :
       input.text[i].kind = "key" /\ input.text[i].key = "errors"

\* a clue starts within the dimensions, and its start plus its answer length
\* along its own direction is within the dimension of that axis
FitsInGrid(clue) ==
  /\ clue.coords.across <= parsing.dimensions.across
  /\ clue.coords.down <= parsing.dimensions.down
  /\ clue.coords[clue.direction] + clue.answer.length
       <= parsing.dimensions[clue.direction]

\* the length left to an owning clue once its owned clues have taken theirs
ResidualLength(clue) == TotalLength(clue.answer.parts) - OwnedLength(clue.owns)

\* C21: in every valid result every clue's start does not exceed the grid
\* dimension on either axis, and start + answer.length along the clue's own
\* direction does not exceed that axis's dimension, answer.length of an owning
\* clue being its residual length and not lengthOwned; nothing is added on
\* the perpendicular axis.  The grid check records no error exactly when every
\* clue fits in this sense.
C21_FitsInGrid ==
  /\ (Returned /\ parsing.isValid /\ CluesParsed) =>
       \A pair \in ClueRecords :
         LET clue == ClueAt(parsing.clues, pair)
         IN /\ FitsInGrid(clue)
            /\ clue.answer.length = ResidualLength(clue)
  /\ BoundsChecked =>
       ((Len(stages) = 7 \/ parsing.errors = <<>>)
          <=> \A pair \in ClueRecords : FitsInGrid(ClueAt(parsing.clues, pair)))

\* a valid result in a 3x3 grid whose across clue 1 at (1,1) has lengthOwned 4
\* and residual length 2, and whose down clue 2 at (2,1) has length 2
C21_Witness ==
  /\ Returned /\ parsing.isValid /\ CluesParsed
  /\ parsing.dimensions = [across |-> 3, down |-> 3]
  /\ IsClueRecord([id |-> <<"1">>, direction |-> "across"])
  /\ IsClueRecord([id |-> <<"2">>, direction |-> "down"])
  /\ Len(parsing.clues.at[<<"1">>].across.owns) = 1
  /\ parsing.clues.at[<<"1">>].across.answer.lengthOwned = 4
  /\ parsing.clues.at[<<"1">>].across.answer.length = 2
  /\ parsing.clues.at[<<"1">>].across.coords.across + 4 > 3
  /\ parsing.clues.at[<<"2">>].down.coords = [across |-> 2, down |-> 1]
  /\ parsing.clues.at[<<"2">>].down.coords.across + 2 > 3

\* the ids that have a clue record in both directions
TwoWayIds ==
  {id \in DOMAIN parsing.clues.at :
     /\ HasOwnProperty(parsing.clues.at[id], "across")
     /\ HasOwnProperty(parsing.clues.at[id], "down")}

\* the across and the down record of id start in the same cell
SameStart(id) ==
  /\ parsing.clues.at[id].across.coords.across = parsing.clues.at[id].down.coords.across
  /\ parsing.clues.at[id].across.coords.down = parsing.clues.at[id].down.coords.down

\* the 'different coords' errors that name id
RECURSIVE DifferentCoordsErrors(_, _)
DifferentCoordsErrors(errors, id) ==
  IF errors = <<>> THEN 0
  ELSE (IF errors[1] = [msg |-> "different coords for across and down", id |-> id]
          THEN 1 ELSE 0)
       + DifferentCoordsErrors(Tail(errors), id)

\* C22: for every clue id present in both directions, the contiguity stage
\* records one 'different coords' error for that id if the across and the down
\* record differ in a start coordinate on either axis, and none if they do
\* not; in every valid result the two starts are equal.
C22_SameCoords ==
  /\ ContiguityChecked =>
       /\ \A id \in TwoWayIds :
            DifferentCoordsErrors(parsing.errors, id) = IF SameStart(id) THEN 0 ELSE 1
       /\ Len(ErrorsWith(parsing.errors, "different coords for across and down"))
            = Cardinality({id \in TwoWayIds : ~SameStart(id)})
  /\ (Returned /\ parsing.isValid /\ CluesParsed) =>
       \A id \in TwoWayIds : SameStart(id)

\* clue 1 starts at (1,1) across and at (1,2) down, clue 2 at (2,1) both ways:
\* one error, for clue 1
C22_Witness ==
  /\ Returned /\ ContiguityChecked
  /\ TwoWayIds = {<<"1">>, <<"2">>}
  /\ parsing.clues.at[<<"1">>].across.coords = [across |-> 1, down |-> 1]
  /\ parsing.clues.at[<<"1">>].down.coords = [across |-> 1, down |-> 2]
  /\ SameStart(<<"2">>)
  /\ parsing.errors = <<[msg |-> "different coords for across and down",
                         id |-> <<"1">>]>>
  /\ parsing.isValid = FALSE

\* a clue line that is well formed, its ids after the first being bare numbers
ListsBareIds(item) ==
  /\ IsDigits(item.x) /\ IsDigits(item.y)
  /\ MatchesAnswer(item.answer)
  /\ Len(item.ids) >= 2
  /\ item.ids[1] = FirstId(item.ids[1].id) /\ IsDigits(item.ids[1].id)
  /\ \A k \in 2..Len(item.ids) : item.ids[k] = BareOwnedId(item.ids[k].id)
                                 /\ IsDigits(item.ids[k].id)

\* the directions in which a clue of id exists
DirectionsOf(id) ==
  IF HasOwnProperty(parsing.clues.at, id)
    THEN {d \in Range(directions) : HasOwnProperty(parsing.clues.at[id], d)}
    ELSE {}

\* C23: an id after the first in a clue's id list may be written without a
\* direction suffix: the clue line is accepted, the owned clue's direction is
\* inferred as the single direction in which that id exists, and an
\* 'ambiguous direction' error is recorded when it exists in both.
C23_DirectionInferred ==
  (CluesParsed /\ HasOwnProperty(parsing, "across")) =>
    \A i \in DOMAIN parsing.across.list :
      LET item == parsing.across.list[i]
          self == [id |-> item.ids[1].id, direction |-> "across"]
      IN ListsBareIds(item) =>
           /\ ErrorsWith(parsing.errors, "could not parse clue") = <<>>
           /\ IsClueRecord(self)
           /\ RelationshipsResolved =>
                \A k \in 2..Len(item.ids) :
                  LET ownedId == item.ids[k].id
                  IN /\ Cardinality(DirectionsOf(ownedId)) = 1 =>
                          \E o \in DOMAIN ClueAt(parsing.clues, self).owns :
                            /\ ClueAt(parsing.clues, self).owns[o].id = ownedId
                            /\ ClueAt(parsing.clues, self).owns[o].direction
                                 \in DirectionsOf(ownedId)
                     /\ Cardinality(DirectionsOf(ownedId)) = 2 =>
                          ErrorsWith(parsing.errors,
                                     "owns an id with an ambiguous direction") # <<>>

\* the clue records that own others
Owners == {pair \in ClueRecords : ClueAt(parsing.clues, pair).owns # <<>>}

\* the parts of a clue that no owned clue has taken
RECURSIVE UnpoppedParts(_)
UnpoppedParts(parts) ==
  IF parts = <<>> THEN <<>>
  ELSE (IF HasOwnProperty(parts[1], "clue") THEN <<>> ELSE <<parts[1]>>)
       \o UnpoppedParts(Tail(parts))

\* the errors with a message that name the owner at pair
RECURSIVE ErrorsOfOwner(_, _, _)
ErrorsOfOwner(errors, msg, pair) ==
  IF errors = <<>> THEN <<>>
  ELSE (IF /\ errors[1].msg = msg
           /\ errors[1].id = pair.id
           /\ errors[1].direction = pair.direction
          THEN <<errors[1]>> ELSE <<>>)
       \o ErrorsOfOwner(Tail(errors), msg, pair)

\* every owned clue of the owner at pair was given parts that cover it
OwnedSatisfied(pair) ==
  ErrorsOfOwner(parsing.errors,
                "answer.parts failed to encompass the answers of ownedClues",
                pair) = <<>>

\* C24: after all owned clues of an owning clue have been satisfied, the 'no
\* length left' error is recorded when un-popped parts remain but their total
\* length is zero, and the 'no answer.parts left' error when no un-popped part
\* remains; in both cases the owner's answer.length is not replaced by a
\* residual.
C24_DistinctErrors ==
  AnswersSegmented =>
    \A pair \in Owners :
      LET clue == ClueAt(parsing.clues, pair)
          unpopped == UnpoppedParts(clue.answer.parts)
      IN OwnedSatisfied(pair) =>
           /\ (unpopped # <<>> /\ TotalLength(unpopped) = 0) =>
                /\ Len(ErrorsOfOwner(parsing.errors,
                                     "answer.parts have no length left", pair)) = 1
                /\ clue.answer.length = clue.answer.lengthOwned
           /\ unpopped = <<>> =>
                /\ Len(ErrorsOfOwner(parsing.errors,
                                     "has no answer.parts left", pair)) = 1
                /\ clue.answer.length = clue.answer.lengthOwned

\* the parts that the owned clue at pair was given, from the parts of its owner
GivenParts(owner, pair) ==
  LET sequence == ClueAt(parsing.clues, pair).belongsTo.partsSequence
  IN [i \in DOMAIN sequence |-> owner.answer.parts[sequence[i] + 1]]

\* the reconciliation reached the owned clue at pair
Processed(pair) ==
  HasOwnProperty(ClueAt(parsing.clues, pair).belongsTo, "partsSequence")

\* the parts popped for the owned clue at pair sum to more than its length
Overshoots(owner, pair) ==
  /\ Processed(pair)
  /\ TotalLength(GivenParts(owner, pair)) > ClueAt(parsing.clues, pair).answer.length

\* the 'cannot encompass' errors of an owner for an owned clue
RECURSIVE CannotEncompass(_, _, _)
CannotEncompass(errors, owner, owned) ==
  IF errors = <<>> THEN 0
  ELSE (IF errors[1] = [msg |-> "answer.parts cannot encompass the answer of ownedClue",
                        id |-> owner.id, direction |-> owner.direction,
                        ownedId |-> owned.id, ownedDirection |-> owned.direction]
          THEN 1 ELSE 0)
       + CannotEncompass(Tail(errors), owner, owned)

\* C25: when the whole parts popped from the tail of an owner's parts for one
\* owned clue sum to more than that owned clue's answer length, one 'cannot
\* encompass' error is recorded for it, no other owned clue declared before it
\* is processed (none is given a part sequence, no part is marked with it), and
\* the owner's answer.length stays equal to its lengthOwned; without an
\* overshoot no such error is recorded.
C25_CannotEncompass ==
  AnswerStageRan =>
    \A pair \in Owners :
      LET owner == ClueAt(parsing.clues, pair)
      IN \A k \in DOMAIN owner.owns :
           IF Overshoots(owner, owner.owns[k]) THEN
             /\ CannotEncompass(parsing.errors, owner, owner.owns[k]) = 1
             /\ \A j \in 1..(k - 1) :
                  owner.owns[j] # owner.owns[k] =>
                    /\ ~Processed(owner.owns[j])
                    /\ \A p \in DOMAIN owner.answer.parts :
                         HasOwnProperty(owner.answer.parts[p], "clue")
                           => owner.answer.parts[p].clue # owner.owns[j]
             /\ owner.answer.length = owner.answer.lengthOwned
             /\ owner.answer.length = TotalLength(owner.answer.parts)
             /\ Len(ErrorsOfOwner(parsing.errors,
                      "answer.parts failed to encompass the answers of ownedClues",
                      pair)) = 1
           ELSE CannotEncompass(parsing.errors, owner, owner.owns[k]) = 0

\* across 1 with parts (1,1,2) owns down 2 and down 3, each of length 1: the
\* part of length 2 popped for down 3 overshoots, and down 2 is not processed
C25_Witness ==
  /\ Returned /\ AnswerStageRan
  /\ IsClueRecord([id |-> <<"1">>, direction |-> "across"])
  /\ Len(parsing.clues.at[<<"1">>].across.owns) = 2
  /\ IsClueRecord([id |-> <<"2">>, direction |-> "down"])
  /\ IsClueRecord([id |-> <<"3">>, direction |-> "down"])
  /\ Overshoots(parsing.clues.at[<<"1">>].across, [id |-> <<"3">>, direction |-> "down"])
  /\ ~Processed([id |-> <<"2">>, direction |-> "down"])
  /\ parsing.clues.at[<<"1">>].across.answer.lengthOwned = 4

\* the reconciliation of the owner at pair recorded no error
Reconciled(pair) ==
  /\ OwnedSatisfied(pair)
  /\ ErrorsOfOwner(parsing.errors, "answer.parts have no length left", pair) = <<>>
  /\ ErrorsOfOwner(parsing.errors, "has no answer.parts left", pair) = <<>>

\* the positions lo+1 .. hi of a part sequence, as sequence numbers (from 0)
SequenceNumbers(lo, hi) == [i \in 1..(hi - lo) |-> lo + i - 1]

\* cut[0] parts lead, then parts cut[k-1]+1 .. cut[k] are the run of owns[k]
IsSplit(owner, cut) ==
  LET parts == owner.answer.parts
  IN /\ cut[0] >= 1
     /\ cut[Len(owner.owns)] = Len(parts)
     /\ \A p \in 1..cut[0] : ~HasOwnProperty(parts[p], "clue")
     /\ \A k \in DOMAIN owner.owns :
          /\ cut[k - 1] <= cut[k]
          /\ TotalLength(SubSeq(parts, cut[k - 1] + 1, cut[k]))
               = ClueAt(parsing.clues, owner.owns[k]).answer.length
          /\ \A p \in (cut[k - 1] + 1)..cut[k] :
               /\ HasOwnProperty(parts[p], "clue")
               /\ parts[p].clue = owner.owns[k]
          /\ ClueAt(parsing.clues, owner.owns[k]).belongsTo.partsSequence
               = SequenceNumbers(cut[k - 1], cut[k])

\* C26: after a successful reconciliation of an owning clue its parts split
\* into a non-empty leading run of parts without a clue back-reference and
\* then one contiguous run for each owns entry, in owns order; the lengths of
\* a run sum to that owned clue's answer length, every part of it refers back
\* to that owned clue, and the owned clue's partsSequence lists the run's
\* positions in ascending order.
C26_PartRuns ==
  AnswersSegmented =>
    \A pair \in Owners :
      LET owner == ClueAt(parsing.clues, pair)
      IN Reconciled(pair) =>
           \E cut \in [0..Len(owner.owns) -> 0..Len(owner.answer.parts)] :
             IsSplit(owner, cut)

\* the owns entries of a clue name different clues
DistinctOwned(owner) ==
  \A j, k \in DOMAIN owner.owns : owner.owns[j] = owner.owns[k] => j = k

\* C26 for owners whose owns entries name different clues: the split exists.
C26_PartRunsOfDistinctOwned ==
  AnswersSegmented =>
    \A pair \in Owners :
      LET owner == ClueAt(parsing.clues, pair)
      IN (Reconciled(pair) /\ DistinctOwned(owner)) =>
           \E cut \in [0..Len(owner.owns) -> 0..Len(owner.answer.parts)] :
             IsSplit(owner, cut)

\* a token of decimal digits
IsNumber(tok) == tok # <<>> /\ \A i \in DOMAIN tok : IsDigit(tok[i])

\* the length that a token of an answer stands for: the value of a number,
\* the number of letters of a word
TokenLength(tok) == IF IsNumber(tok) THEN DecimalValue(tok) ELSE Len(tok)

\* the text that a token of an answer stands for
TokenText(tok) ==
  IF IsNumber(tok) THEN [i \in 1..DecimalValue(tok) |-> "X"] ELSE tok

RECURSIVE TokensLength(_)
TokensLength(answerText) ==
  IF answerText = <<>> THEN 0
  ELSE TokenLength(answerText[1].tok) + TokensLength(Tail(answerText))

\* C27: for every clue with an empty owns list in a valid result,
\* answer.length is the sum of the lengths of its answer parts; the part of a
\* numeric token has the token's integer value as length and that many
\* placeholder characters as text, the part of a letters-only token has the
\* number of its characters as length and the token as text.
C27_AnswerLength ==
  (Returned /\ parsing.isValid /\ CluesParsed) =>
    \A pair \in ClueRecords :
      LET clue == ClueAt(parsing.clues, pair)
          tokens == clue.raw.answerText
      IN /\ Len(clue.answer.parts) = Len(tokens)
         /\ \A p \in DOMAIN clue.answer.parts :
              /\ clue.answer.parts[p].length = TokenLength(tokens[p].tok)
              /\ clue.answer.parts[p].text = TokenText(tokens[p].tok)
              /\ Len(clue.answer.parts[p].text) = clue.answer.parts[p].length
         /\ clue.owns = <<>> =>
              /\ clue.answer.length = TotalLength(clue.answer.parts)
              /\ clue.answer.length = TokensLength(tokens)

\* a valid result whose clue 1 has the answer (AB-03): parts of lengths 2 and 3
C27_Witness ==
  /\ Returned /\ parsing.isValid /\ CluesParsed
  /\ IsClueRecord([id |-> <<"1">>, direction |-> "across"])
  /\ parsing.clues.at[<<"1">>].across.owns = <<>>
  /\ Len(parsing.clues.at[<<"1">>].across.answer.parts) = 2
  /\ parsing.clues.at[<<"1">>].across.answer.parts[1].text = <<"A", "B">>
  /\ parsing.clues.at[<<"1">>].across.answer.parts[2].text = <<"X", "X", "X">>
  /\ parsing.clues.at[<<"1">>].across.answer.length = 5

\* the clue that the belongsTo of a clue names
OwnerNamedBy(clue) ==
  [id |-> clue.belongsTo.id, direction |-> clue.belongsTo.direction]

\* C28: in every valid result belongs-to and owns are inverse in both
\* directions: a clue c whose belongsTo names clue o is in the owns list of o,
\* and every entry of the owns list of o is a clue whose belongsTo names o; so
\* no valid result holds a clue that belongs to a clue which does not own it,
\* a clue whose body refers to itself included.
C28_InverseRelations ==
  (Returned /\ parsing.isValid /\ CluesParsed) =>
    \A pair \in ClueRecords :
      LET clue == ClueAt(parsing.clues, pair)
      IN /\ \A k \in DOMAIN clue.owns :
              /\ IsClueRecord(clue.owns[k])
              /\ HasBelongsTo(ClueAt(parsing.clues, clue.owns[k]))
              /\ OwnerNamedBy(ClueAt(parsing.clues, clue.owns[k])) = pair
         /\ HasBelongsTo(clue) =>
              /\ IsClueRecord(OwnerNamedBy(clue))
              /\ \E k \in DOMAIN ClueAt(parsing.clues, OwnerNamedBy(clue)).owns :
                   ClueAt(parsing.clues, OwnerNamedBy(clue)).owns[k] = pair

\* C29: in every valid result the start coordinates coords.across and
\* coords.down of every clue are strictly positive; a clue line that declares
\* a zero coordinate does not yield a valid result.
C29_PositiveCoords ==
  (Returned /\ parsing.isValid /\ CluesParsed) =>
    \A pair \in ClueRecords :
      /\ ClueAt(parsing.clues, pair).coords.across > 0
      /\ ClueAt(parsing.clues, pair).coords.down > 0

\* the line is a key line of a list key with nothing after the colon
IsBareListKey(line) ==
  /\ line.kind = "key"
  /\ HasOwnProperty(permittedKeys, line.key)
  /\ permittedKeys[line.key] = "list"
  /\ TrimLeft(line.value) = <<>>

\* line j is a bare list key that no earlier key line names
OpensAtFirstSight(text, j) ==
  /\ IsBareListKey(text[j])
  /\ \A h \in 1..(j - 1) : ~(text[h].kind = "key" /\ text[h].key = text[j].key)

\* line j is a bare list key that no earlier line opened a list for
RECURSIVE Opens(_, _)
Opens(text, j) ==
  /\ IsBareListKey(text[j])
  /\ \A h \in 1..(j - 1) :
       ~(text[h].kind = "key" /\ text[h].key = text[j].key /\ Opens(text, h))

\* the last key line before line i, or 0
LastKeyLineBefore(text, i) ==
  LET before == {h \in 1..(i - 1) : text[h].kind = "key"}
  IN IF before = {} THEN 0 ELSE Maximum(before)

\* the error of a bullet line met while no list is open
RECURSIVE NoKeyErrors(_, _)
NoKeyErrors(errors, i) ==
  IF errors = <<>> THEN 0
  ELSE (IF errors[1] = [msg |-> "no key specified and cannot be a list item",
                        line |-> i - 1]
          THEN 1 ELSE 0)
       + NoKeyErrors(Tail(errors), i)

====
